---- MODULE Spec2Model ----
(***************************************************************************)
(* A model of the qa_queue_service application: the relational store       *)
(* (users, documents, query logs), the vector index behind its three       *)
(* backends, the Celery jobs (document ingestion, document deletion, bulk  *)
(* deletion, question answering), the synchronous routes that share the    *)
(* same stores, and the result backend that status polls read.             *)
(*                                                                         *)
(* Every job and every request is a process of the table `procs`; a step   *)
(* of a process is one action, cut where the code reads or writes a store  *)
(* that other processes share, so that the interleavings the deployment    *)
(* allows (several workers, several requests) are interleavings of the     *)
(* model.                                                                  *)
(***************************************************************************)
EXTENDS Integers, Sequences, FiniteSets, TLC

(***************************************************************************)
(* Bounds of the model.  MaxSubmissions bounds the jobs and requests of a  *)
(* run and MaxDay the days it spans.  The three settings are read from the *)
(* environment (app/config.py); the model runs the service configured with *)
(* small values, so that every limit is reached within a run.              *)
(***************************************************************************)
MaxSubmissions == 2
max_documents_per_user == 1
max_chunks_per_document == 3
max_queries_per_hour == 1
MaxDay == 1
MaxContext == 4
MaxHistory == 2
MaxTextLen == 5
MaxChunkSize == 3
MaxOverlap == 3
MaxIterations == 6
MaxSecond == 2
MaxPushes == 101
MaxKeys == 7

(***************************************************************************)
(* Program constants.                                                      *)
(***************************************************************************)
default_chunk_size == 1000
default_overlap == 200
boundary_lookback == 100
top_k_default == 5
ingest_max_retries == 3
ingest_countdown == 60
qa_max_retries == 2
qa_countdown == 30
rate_limit_enabled == TRUE
simple_context_chunks == 3
answer_context_limit == 800
history_limit == 100
max_file_size == 10485760

Max2(a, b) == IF a >= b THEN a ELSE b
Min2(a, b) == IF a <= b THEN a ELSE b
SetMax(S) == CHOOSE x \in S : \A y \in S : y <= x

(***************************************************************************)
(* app/utils/document_processor.py                                         *)
(***************************************************************************)
Whitespace == {" ", "\n", "\t"}

\* A slice bound as Python reads it: a negative one counts from the end, and
\* the result is clamped to 0..len.
SliceIndex(i, len) == IF i < 0 THEN Max2(i + len, 0) ELSE Min2(i, len)

\* str.rfind(ch, lo, hi): the highest 0-based index in [lo, hi) holding ch, or -1.
rfind(text, ch, lo, hi) ==
    LET from == SliceIndex(lo, Len(text))
        to == SliceIndex(hi, Len(text))
        hits == {i \in from..(to - 1) : text[i + 1] = ch}
    IN  IF hits = {} THEN -1 ELSE SetMax(hits)

\* text[lo:hi] with 0-based bounds.
Slice(text, lo, hi) ==
    LET from == SliceIndex(lo, Len(text))
        to == SliceIndex(hi, Len(text))
    IN  IF from < to THEN SubSeq(text, from + 1, to) ELSE <<>>

RECURSIVE lstrip(_)
lstrip(s) == IF s # <<>> /\ Head(s) \in Whitespace THEN lstrip(Tail(s)) ELSE s

RECURSIVE rstrip(_)
rstrip(s) ==
    IF s # <<>> /\ s[Len(s)] \in Whitespace
    THEN rstrip(SubSeq(s, 1, Len(s) - 1))
    ELSE s

strip(s) == rstrip(lstrip(s))

\* The end of the window that starts at `start`: the raw boundary, pulled back
\* to just after the last '.' or line break of its last 100 characters.
WindowEnd(text, start, chunk_size) ==
    LET end == start + chunk_size
        lo == Max2(start, end - boundary_lookback)
        break_point == Max2(rfind(text, ".", lo, end), rfind(text, "\n", lo, end))
    IN  IF end < Len(text) /\ break_point > start THEN break_point + 1 ELSE end

\* A step that leaves one character between two windows.
NextStart_gap(end, overlap) == end + 1 - overlap

\* Line 75: the start of the next window.
NextStart(end, overlap) == end - overlap

RECURSIVE SplitFrom(_, _, _, _, _)
SplitFrom(text, start, chunks, chunk_size, overlap) ==
    IF ~(start < Len(text)) THEN chunks
    ELSE LET end == WindowEnd(text, start, chunk_size)
             chunk == strip(Slice(text, start, end))
             out == IF chunk # <<>> THEN Append(chunks, chunk) ELSE chunks
             next == NextStart(end, overlap)
         IN  IF next >= Len(text) THEN out
             ELSE SplitFrom(text, next, out, chunk_size, overlap)

split_text_into_chunks(text, chunk_size, overlap) ==
    IF Len(text) <= chunk_size THEN <<text>>
    ELSE SplitFrom(text, 0, <<>>, chunk_size, overlap)

(***************************************************************************)
(* The inputs: users, file contents, uploads.                              *)
(***************************************************************************)
\* Users 1 and 2 are registered; no row of the users table has id 3.
Users == {1, 2}
NoUser == 3
UserIds == Users \cup {NoUser}

\* The byte contents that are uploaded.  "A" is a short note, "B" a text of
\* 2000 characters, "Big" a text long enough to exceed the chunk limit.
Contents == {"A", "B", "Big"}
ContentLen(c) ==
    CASE c = "A" -> 40
      [] c = "B" -> 2 * default_chunk_size
      [] c = "Big" -> default_chunk_size * (max_chunks_per_document + 1)

\* extract_text_from_txt: the decoded text, a sentence end every 950 characters.
extract_text_from_txt(c) ==
    [i \in 1..ContentLen(c) |-> IF i % 950 = 0 THEN "." ELSE "a"]

\* calculate_hash: SHA-256 of the bytes, taken to be collision-free.
calculate_hash(c) == <<"sha256", c>>

Uploads == {
    [filename |-> "a.txt", content |-> "A"],
    [filename |-> "b.txt", content |-> "B"],
    [filename |-> "big.txt", content |-> "Big"],
    [filename |-> "n.docx", content |-> "A"] }

\* The requests the upload route also gets: the first content under another
\* name, and a file of one byte more than max_file_size.
RouteUploads ==
    Uploads \cup {[filename |-> "a2.txt", content |-> "A"],
                  [filename |-> "huge.txt", content |-> "Huge"]}

\* len(file_content); the contents are ASCII, one byte a character.
FileSize(c) == IF c = "Huge" THEN max_file_size + 1 ELSE ContentLen(c)

\* Path(filename).suffix.lower()
Suffix(filename) ==
    CASE filename \in {"a.txt", "b.txt", "big.txt", "a2.txt", "huge.txt"} -> ".txt"
      [] filename = "n.docx" -> ".docx"

allowed_extensions == {".txt", ".pdf"}

\* process_document: (text, hash), or ValueError for an unsupported suffix.
process_document(up) ==
    IF Suffix(up.filename) = ".txt"
    THEN [ok |-> TRUE, text |-> extract_text_from_txt(up.content),
          content_hash |-> calculate_hash(up.content)]
    ELSE [ok |-> FALSE, text |-> <<>>, content_hash |-> calculate_hash(up.content)]

\* A splitter that cuts at every chunk_size characters without overlap.
ChunkCount_no_overlap ==
    [c \in Contents |-> (ContentLen(c) + default_chunk_size - 1) \div default_chunk_size]

\* len(split_text_into_chunks(text)) of each content, with the default sizes.
ChunkCount ==
    [c \in Contents |->
        Len(split_text_into_chunks(extract_text_from_txt(c),
                                   default_chunk_size, default_overlap))]

(***************************************************************************)
(* State.                                                                  *)
(***************************************************************************)
VARIABLES
    users,        \* users table: id -> [document_count, query_count_today, last_query_date]
    documents,    \* documents table: a set of Document rows
    query_logs,   \* query_logs table: the sequence of QueryLog rows, in insertion order
    index,        \* the vector index: a set of entries, one per identifier
    backend,      \* settings.vector_db_type, fixed at start-up
    procs,        \* the jobs and requests: slot -> process record
    meta,         \* the Celery result backend: slot -> [state, progress, result]
    reports,      \* per job, the update_state calls of its current execution, in
                  \* order: <<state, progress>>
    polled,       \* per job, the status the latest status poll returned ("" before any)
    last_search,  \* the latest search_similar_chunks call: [user_id, top_k, hits]
    today,        \* datetime.utcnow().date(), as a day number
    submitted,    \* the number of jobs and requests accepted so far
    redis,        \* TaskMonitor.redis_client: [user_tasks, task_meta]
    revoked,      \* the task ids passed to celery_app.control.revoke
    monitor,      \* the latest TaskMonitor call: its arguments and what it returned
    split,        \* the split_text_into_chunks call in progress: its locals
    llm,          \* the latest generate_answer call: its arguments and what it returned
    pool          \* the pool processes of the worker of the question_answering queue

vars == <<users, documents, query_logs, index, backend, procs, meta, reports,
          polled, last_search, today, submitted, redis, revoked, monitor, split,
          llm, pool>>

\* What the service's own handlers and jobs never touch.
side == <<redis, revoked, monitor, split, llm, pool>>

\* Two processes run at a time: two workers, or a worker and a request.
Procs == {1, 2}
Backends == {"chromadb", "qdrant", "elasticsearch"}
NoDate == -1

NoResult ==
    [status |-> "", document_id |-> 0, chunk_count |-> 0, error |-> "",
     answer |-> "", chunks_used |-> 0]
Pending == [state |-> "PENDING", progress |-> -1, result |-> NoResult]

FreeProc ==
    [kind |-> "none", user |-> 0, filename |-> "", content |-> "", doc |-> 0,
     pc |-> "free", runs |-> 0, retries |-> 0, wait |-> 0, error |-> "", http |-> 0,
     dup_at_start |-> FALSE, docs |-> {}, count |-> 0, date |-> NoDate,
     chunks_used |-> 0, events |-> <<>>, full_answer |-> <<>>]

\* A slot is taken by a new job or request when it is free or its process has
\* ended; the lowest such slot is taken, so that two runs that differ only in
\* the slot numbers of their processes are one run.
Reusable(p) == procs[p].pc \in {"free", "done"}
NextFree(p) ==
    /\ submitted < MaxSubmissions
    /\ Reusable(p)
    /\ \A q \in Procs : q < p => ~Reusable(q)

(***************************************************************************)
(* app/database/models.py: the documents table.                            *)
(***************************************************************************)
UserDocuments(u) == {d \in documents : d.user_id = u}

\* A pre-check that looks for the hash among the rows of every user but the
\* uploader's own.
ExistingDoc_others(u, h) == {d \in documents : d.user_id # u /\ d.content_hash = h}

\* db.query(Document).filter(content_hash == h, user_id == u).first()
ExistingDoc(u, h) == {d \in documents : d.user_id = u /\ d.content_hash = h}

\* A lookup by id alone, whoever owns the document.
FindDocument_any_user(i, u) == {d \in documents : d.id = i}

\* db.query(Document).filter(id == i, user_id == u).first()
FindDocument(i, u) == {d \in documents : d.id = i /\ d.user_id = u}

\* The integer primary key of the next row: one more than the highest id in
\* the table (SQLite's rowid, the default database_url).
NextDocumentId ==
    IF documents = {} THEN 1 ELSE SetMax({d.id : d \in documents}) + 1

\* UniqueConstraint('user_id', 'content_hash'): the INSERT of a row whose pair
\* is already in the table raises IntegrityError at commit.
UniqueViolation(u, h) == \E d \in documents : d.user_id = u /\ d.content_hash = h

\* No more rows are ever inserted than processes are accepted.
DocumentIds == 1..MaxSubmissions

NewDocument(u, filename, c, n) ==
    [id |-> NextDocumentId, filename |-> filename, content_hash |-> calculate_hash(c),
     chunk_count |-> n, user_id |-> u]

(***************************************************************************)
(* app/qa/vector_store.py                                                  *)
(***************************************************************************)
\* f"user_{user_id}_doc_{document_id}_chunk_{i}"
StringId(u, d, i) == <<"user", u, "doc", d, "chunk", i>>

\* QdrantVectorStore._generate_uuid_from_string: the first 128 bits of the
\* SHA-256 of the string id, a fixed function of it (taken collision-free).
generate_uuid_from_string(string_id) == <<"uuid-sha256">> \o string_id

\* The identifier a backend stores an entry under.
EntryId(b, u, d, i) ==
    IF b = "qdrant" THEN generate_uuid_from_string(StringId(u, d, i))
    ELSE StringId(u, d, i)

\* The entries add_chunks builds; chunk i of a content is named <<content, i>>.
NewEntries(b, c, n, d, u) ==
    {[id |-> EntryId(b, u, d, i), user_id |-> u, document_id |-> d,
      chunk_index |-> i, content |-> <<c, i>>] : i \in 0..(n - 1)}

\* A store that gives every added chunk an identifier of its own.
add_chunks_append(idx, b, c, n, d, u) ==
    idx \cup {[e EXCEPT !.id = <<e.id, Cardinality(idx)>>] :
                 e \in NewEntries(b, c, n, d, u)}

\* add_chunks: qdrant upserts and elasticsearch indexes by _id, both replacing
\* an entry of the same identifier; chromadb 0.4 `add` keeps the entry it has.
add_chunks(idx, b, c, n, d, u) ==
    LET new == NewEntries(b, c, n, d, u)
        ids == {e.id : e \in new}
        old == {e.id : e \in idx}
    IN  IF b = "chromadb"
        THEN idx \cup {e \in new : e.id \notin old}
        ELSE {e \in idx : e.id \notin ids} \cup new

\* A query without the filter on user_id (the variant the isolation property
\* must tell apart from the stores' queries).
UserFilter_none(idx, u) == idx

\* The filter of the backend query: where / query_filter / knn.filter on user_id.
UserFilter(idx, u) == {e \in idx : e.user_id = u}

\* search_similar_chunks: the top_k nearest entries among those the filter
\* admits.  Which ones are nearest depends on the embeddings, so any choice of
\* min(top_k, #admitted) of them is possible.
SearchResults(idx, u, top_k) ==
    LET admitted == UserFilter(idx, u)
        n == Min2(top_k, Cardinality(admitted))
    IN  {h \in SUBSET admitted : Cardinality(h) = n}

\* A deletion that filters on document_id alone.
delete_document_chunks_any_user(idx, d, u) == {e \in idx : e.document_id # d}

\* delete_document_chunks: delete by document_id and user_id.
delete_document_chunks(idx, d, u) ==
    {e \in idx : ~(e.document_id = d /\ e.user_id = u)}

\* delete_user_data: delete by user_id.
delete_user_data(idx, u) == {e \in idx : e.user_id # u}

(***************************************************************************)
(* Initial states.                                                         *)
(***************************************************************************)
\* The side store before any task is tracked: no list, no metadata key.
NoMeta == [user_id |-> 0, task_type |-> "", metadata |-> ""]
EmptyRedis ==
    [user_tasks |-> [u \in UserIds |-> <<>>], task_meta |-> [t \in Procs |-> NoMeta],
     user_notifications |-> [u \in UserIds |-> <<>>], read |-> {}, ttl |-> <<>>]

(***************************************************************************)
(* The Redis commands the code issues.  A key is a triple of its prefix    *)
(* and its two parts (0 for a part it does not have); store.ttl holds, for *)
(* every key that exists, what TTL answers: the seconds left, or           *)
(* NoExpiry for a key without expiry.                                      *)
(***************************************************************************)
NoExpiry == -1
NoKey == -2
RedisKey(prefix, a, b) == <<prefix, a, b>>

\* TTL key
TTL(store, key) == IF key \in DOMAIN store.ttl THEN store.ttl[key] ELSE NoKey

\* SETEX key seconds value: the key is written with its expiry.
setex(store, key, seconds) == [store EXCEPT !.ttl = (key :> seconds) @@ @]

\* An EXPIRE that is not carried out.
expire_skipped(store, key, seconds) == store

\* EXPIRE key seconds: sets the expiry of a key that exists.
expire(store, key, seconds) ==
    IF key \in DOMAIN store.ttl
    THEN [store EXCEPT !.ttl = (key :> seconds) @@ @]
    ELSE store

\* DEL key, or the key running out.
del(store, key) ==
    [store EXCEPT !.ttl = [k \in (DOMAIN @) \ {key} |-> @[k]]]

\* LPUSH: the value goes to the head of the list {name}:{u}; a list that
\* did not exist is created without expiry, one that did keeps its own.
lpush(store, name, u, value) ==
    [store EXCEPT ![name][u] = <<value>> \o @,
                  !.ttl = IF RedisKey(name, u, 0) \in DOMAIN @ THEN @
                          ELSE (RedisKey(name, u, 0) :> NoExpiry) @@ @]

\* LRANGE on the elements of a list: 0-based inclusive indices, a negative
\* one counting from the end, out-of-range ones clamped.
lrange(list, start, stop) ==
    LET from == IF start < 0 THEN Max2(Len(list) + start, 0) ELSE start
        to == IF stop < 0 THEN Len(list) + stop ELSE Min2(stop, Len(list) - 1)
    IN  IF from > to THEN <<>> ELSE SubSeq(list, from + 1, to + 1)

\* LTRIM: the list keeps the elements LRANGE would return.
ltrim(store, name, u, start, stop) ==
    [store EXCEPT ![name][u] = lrange(@, start, stop)]

\* No TaskMonitor call, no split_text_into_chunks call and no generate_answer
\* call has been made.
NoMonitorCall ==
    [op |-> "none", task_id |-> 0, user_id |-> 0, returned |-> "", new_task |-> 0]
NoSplit ==
    [text |-> <<>>, chunk_size |-> 0, overlap |-> 0, start |-> 0, end |-> 0,
     chunks |-> <<>>, windows |-> <<>>, pc |-> "idle"]
NoLLMCall ==
    [strategy |-> "none", question |-> "", context |-> <<>>, outcome |-> "none",
     text |-> <<>>, called |-> FALSE, answer |-> <<>>]

\* The tables, the index and the job slots of the service on backend b with
\* the Document rows `rows` stored and indexed, no job or request in flight.
InitService(b, rows) ==
    /\ users = [u \in Users |->
                  [document_count |-> Cardinality({d \in rows : d.user_id = u}),
                   query_count_today |-> 0, last_query_date |-> NoDate]]
    /\ documents = rows
    /\ query_logs = <<>>
    /\ index = UNION {NewEntries(b, d.content_hash[2], d.chunk_count, d.id, d.user_id) :
                         d \in rows}
    /\ backend = b
    /\ procs = [p \in Procs |-> FreeProc]
    /\ meta = [p \in Procs |-> Pending]
    /\ reports = [p \in Procs |-> <<>>]
    /\ polled = [p \in Procs |-> ""]
    /\ last_search = [user_id |-> 0, top_k |-> 0, hits |-> {}, stored |-> 0]
    /\ today = 0
    /\ submitted = 0

\* The state in which the service runs on backend b with the rows `rows`:
\* nothing tracked or revoked, no call in progress.
InitWith(b, rows) ==
    /\ InitService(b, rows)
    /\ redis = EmptyRedis
    /\ revoked = {}
    /\ monitor = NoMonitorCall
    /\ split = NoSplit
    /\ llm = NoLLMCall /\ pool = 1

\* The state after construction: two registered users, empty stores.
Init == \E b \in Backends : InitWith(b, {})

\* The state after the first user has uploaded a.txt (reached by the
\* ingestion specification below; see UploadedState).
UploadedDocument ==
    [id |-> 1, filename |-> "a.txt", content_hash |-> calculate_hash("A"),
     chunk_count |-> ChunkCount["A"], user_id |-> 1]
InitUploaded == InitWith("chromadb", {UploadedDocument})

(***************************************************************************)
(* The Celery result backend and the retry policy of a task.               *)
(***************************************************************************)
\* current_task.update_state(state=st, meta={..., "progress": pr})
UpdateState(st, pr) == [state |-> st, progress |-> pr, result |-> NoResult]

\* The task returned: Celery stores SUCCESS with the returned value.
Returned(res) == [state |-> "SUCCESS", progress |-> -1, result |-> res]

Failure(err) == [NoResult EXCEPT !.status = "exception", !.error = err]

\* The `except Exception` handler of a task with progress reports: it writes
\* FAILURE with progress 0 and re-raises.
Raise(pr, err) == [pr EXCEPT !.pc = "raised", !.error = err]

\* A retry policy that allows one retry more than the decorators'.
MaxRetries_one_more(kind) ==
    IF kind = "ingest" THEN ingest_max_retries + 1 ELSE qa_max_retries + 1

\* retry_kwargs of the task decorators: (max_retries, countdown in seconds).
MaxRetries(kind) == IF kind = "ingest" THEN ingest_max_retries ELSE qa_max_retries
Countdown(kind) == IF kind = "ingest" THEN ingest_countdown ELSE qa_countdown

\* autoretry_for: the exception classes the decorator retries.  Both tasks
\* name Exception, which every error raised in them is.
AutoretryFor(kind, err) == TRUE

\* A worker that never takes a job that was queued again for a retry.
Due_first_only(pr) == pr.retries = 0

\* A queued job may start: at once when first submitted, after its countdown
\* when it is a retry.
Due(pr) == pr.retries = 0 \/ pr.wait >= Countdown(pr.kind)

\* Celery's autoretry wrapper, run when the task body raised: Task.retry
\* re-queues the job with a countdown while request.retries < max_retries,
\* and lets the exception through (state FAILURE) once they are used up.
autoretry(p) ==
    /\ procs[p].pc = "raised"
    /\ IF AutoretryFor(procs[p].kind, procs[p].error)
          /\ procs[p].retries < MaxRetries(procs[p].kind)
       THEN /\ procs' = [procs EXCEPT ![p].pc = "queued", ![p].retries = @ + 1,
                                      ![p].wait = 0, ![p].error = ""]
            /\ meta' = [meta EXCEPT ![p] =
                          [state |-> "RETRY", progress |-> -1,
                           result |-> Failure(procs[p].error)]]
       ELSE /\ procs' = [procs EXCEPT ![p].pc = "done", ![p].error = ""]
            /\ meta' = [meta EXCEPT ![p] =
                          [state |-> "FAILURE", progress |-> -1,
                           result |-> Failure(procs[p].error)]]
    /\ UNCHANGED <<users, documents, query_logs, index, backend, side, reports, polled,
                   last_search, today, submitted>>

\* dt seconds pass: every retry that waits for its countdown is dt closer.
Waiting(p) == procs[p].pc = "queued" /\ procs[p].retries > 0 /\ ~Due(procs[p])
Tick(dt) ==
    /\ \E p \in Procs : Waiting(p)
    /\ procs' = [p \in Procs |->
                   IF Waiting(p)
                   THEN [procs[p] EXCEPT !.wait = Min2(@ + dt, Countdown(procs[p].kind))]
                   ELSE procs[p]]
    /\ UNCHANGED <<users, documents, query_logs, index, backend, side, meta, reports,
                   polled, last_search, today, submitted>>

(***************************************************************************)
(* app/qa/routes.py: POST /qa/upload                                       *)
(***************************************************************************)
NewProc(kind, u, up, pc) ==
    [FreeProc EXCEPT !.kind = kind, !.user = u, !.filename = up.filename,
                     !.content = up.content, !.pc = pc]

Take(p, pr) ==
    /\ procs' = [procs EXCEPT ![p] = pr]
    /\ meta' = [meta EXCEPT ![p] = Pending]
    /\ reports' = [reports EXCEPT ![p] = <<>>]
    /\ polled' = [polled EXCEPT ![p] = ""]
    /\ submitted' = submitted + 1

\* The checks without the one on the number of documents.
UploadAccepted_unlimited(u, up) ==
    /\ Suffix(up.filename) \in allowed_extensions
    /\ FileSize(up.content) <= max_file_size

\* The checks of the route before any processing, lines 38-59: file type,
\* file size and document limit (the limit is read from the user row loaded
\* with the request).
UploadAccepted(u, up) ==
    /\ Suffix(up.filename) \in allowed_extensions
    /\ FileSize(up.content) <= max_file_size
    /\ users[u].document_count < max_documents_per_user

\* The detail of the HTTP 400 answer: that of the first check that fails.
UploadRefusal(u, up) ==
    IF Suffix(up.filename) \notin allowed_extensions THEN "File type not allowed"
    ELSE IF FileSize(up.content) > max_file_size THEN "File too large"
    ELSE "Maximum document limit reached"

\* A request one of the checks refuses: HTTPException 400, raised before the
\* branch on use_async.
upload_document_refused(p, u, up) ==
    /\ NextFree(p)
    /\ ~UploadAccepted(u, up)
    /\ Take(p, [NewProc("upload", u, up, "done") EXCEPT
                   !.http = 400, !.error = UploadRefusal(u, up)])
    /\ UNCHANGED <<users, documents, query_logs, index, backend, side, last_search, today>>

\* use_async, lines 61-86: the route submits process_document_async, notes
\* the job under upload_task:{user}:{task} for an hour and answers at once.
upload_document_async(p, u, up) ==
    /\ NextFree(p)
    /\ UploadAccepted(u, up)
    /\ Take(p, NewProc("ingest", u, up, "queued"))
    /\ redis' = setex(redis, RedisKey("upload_task", u, p), 3600)
    /\ UNCHANGED <<users, documents, query_logs, index, backend, pool, revoked, monitor,
                   split, llm, last_search, today>>

\* process_document_async.delay called directly: the task checks its
\* arguments itself (a user id without a row, a file of an unsupported type).
process_document_async_delay(p, u, up) ==
    /\ NextFree(p)
    /\ u \in UserIds /\ up \in Uploads
    /\ Take(p, NewProc("ingest", u, up, "queued"))
    /\ UNCHANGED <<users, documents, query_logs, index, backend, side, last_search, today>>

(***************************************************************************)
(* app/tasks/document_tasks.py: process_document_async                     *)
(***************************************************************************)
Upload(pr) == [filename |-> pr.filename, content |-> pr.content]

\* Lines 49-72: progress 0, the user and document-limit checks, progress 25.
process_document_async_begin(p) ==
    LET pr == procs[p]
        u == pr.user
        seen == [pr EXCEPT !.runs = @ + 1,
                           !.dup_at_start =
                               ExistingDoc(u, calculate_hash(pr.content)) # {}]
    IN
    /\ pr.kind = "ingest" /\ pr.pc = "queued" /\ Due(pr)
    /\ IF u \notin DOMAIN users
       THEN /\ procs' = [procs EXCEPT ![p] = Raise(seen, "User not found")]
            /\ reports' = [reports EXCEPT ![p] =
                             <<<<"PROCESSING", 0>>, <<"FAILURE", 0>>>>]
            /\ meta' = [meta EXCEPT ![p] = UpdateState("FAILURE", 0)]
       ELSE IF users[u].document_count >= max_documents_per_user
       THEN /\ procs' = [procs EXCEPT ![p] =
                           Raise(seen, "Maximum document limit reached")]
            /\ reports' = [reports EXCEPT ![p] =
                             <<<<"PROCESSING", 0>>, <<"FAILURE", 0>>>>]
            /\ meta' = [meta EXCEPT ![p] = UpdateState("FAILURE", 0)]
       ELSE /\ procs' = [procs EXCEPT ![p] = [seen EXCEPT !.pc = "extract"]]
            /\ reports' = [reports EXCEPT ![p] =
                             <<<<"PROCESSING", 0>>, <<"PROCESSING", 25>>>>]
            /\ meta' = [meta EXCEPT ![p] = UpdateState("PROCESSING", 25)]
    /\ UNCHANGED <<users, documents, query_logs, index, backend, side, polled,
                   last_search, today, submitted>>

\* Lines 74-94: extract the text, the duplicate pre-check, progress 50.
process_document_async_check(p) ==
    LET pr == procs[p]
        doc == process_document(Upload(pr))
        existing == ExistingDoc(pr.user, doc.content_hash)
    IN
    /\ pr.kind = "ingest" /\ pr.pc = "extract"
    /\ IF ~doc.ok
       THEN /\ procs' = [procs EXCEPT ![p] = Raise(pr, "Unsupported file type")]
            /\ reports' = [reports EXCEPT ![p] = Append(@, <<"FAILURE", 0>>)]
            /\ meta' = [meta EXCEPT ![p] = UpdateState("FAILURE", 0)]
       ELSE IF existing # {}
       THEN /\ procs' = [procs EXCEPT ![p].pc = "done"]
            /\ reports' = reports
            /\ meta' = [meta EXCEPT ![p] = Returned(
                          [NoResult EXCEPT !.status = "duplicate",
                             !.document_id = (CHOOSE d \in existing : TRUE).id])]
       ELSE /\ procs' = [procs EXCEPT ![p].pc = "persist"]
            /\ reports' = [reports EXCEPT ![p] = Append(@, <<"PROCESSING", 50>>)]
            /\ meta' = [meta EXCEPT ![p] = UpdateState("PROCESSING", 50)]
    /\ UNCHANGED <<users, documents, query_logs, index, backend, side, polled,
                   last_search, today, submitted>>

\* A documents table without the UniqueConstraint: every INSERT commits.
InsertAllowed_unconstrained(u, h) == TRUE

\* The INSERT of the Document row and its commit.
InsertAllowed(u, h) == ~UniqueViolation(u, h)

\* An ingestion that goes on to the index without having committed the
\* Document row.
process_document_async_persist_uncommitted(p) ==
    LET pr == procs[p]
        n == ChunkCount[pr.content]
        row == NewDocument(pr.user, pr.filename, pr.content, n)
    IN
    /\ pr.kind = "ingest" /\ pr.pc = "persist"
    /\ procs' = [procs EXCEPT ![p].pc = "index", ![p].doc = row.id]
    /\ reports' = [reports EXCEPT ![p] = Append(@, <<"PROCESSING", 75>>)]
    /\ meta' = [meta EXCEPT ![p] = UpdateState("PROCESSING", 75)]
    /\ UNCHANGED <<users, documents, query_logs, index, backend, side, polled,
                   last_search, today, submitted>>

\* Lines 96-118: split, the chunk limit, the Document row, progress 75.
process_document_async_persist(p) ==
    LET pr == procs[p]
        n == ChunkCount[pr.content]
        row == NewDocument(pr.user, pr.filename, pr.content, n)
    IN
    /\ pr.kind = "ingest" /\ pr.pc = "persist"
    /\ IF n > max_chunks_per_document
       THEN /\ procs' = [procs EXCEPT ![p] = Raise(pr, "Document too large")]
            /\ reports' = [reports EXCEPT ![p] = Append(@, <<"FAILURE", 0>>)]
            /\ meta' = [meta EXCEPT ![p] = UpdateState("FAILURE", 0)]
            /\ documents' = documents
       ELSE IF ~InsertAllowed(pr.user, row.content_hash)
       THEN /\ procs' = [procs EXCEPT ![p] = Raise(pr, "IntegrityError")]
            /\ reports' = [reports EXCEPT ![p] = Append(@, <<"FAILURE", 0>>)]
            /\ meta' = [meta EXCEPT ![p] = UpdateState("FAILURE", 0)]
            /\ documents' = documents
       ELSE /\ procs' = [procs EXCEPT ![p].pc = "index", ![p].doc = row.id]
            /\ reports' = [reports EXCEPT ![p] = Append(@, <<"PROCESSING", 75>>)]
            /\ meta' = [meta EXCEPT ![p] = UpdateState("PROCESSING", 75)]
            /\ documents' = documents \cup {row}
    /\ UNCHANGED <<users, query_logs, index, backend, side, polled, last_search, today,
                   submitted>>

\* Line 121: vector_store.add_chunks, a network call that may raise.
process_document_async_index(p, fails) ==
    LET pr == procs[p] IN
    /\ pr.kind = "ingest" /\ pr.pc = "index"
    /\ IF fails
       THEN /\ procs' = [procs EXCEPT ![p] = Raise(pr, "vector store unavailable")]
            /\ reports' = [reports EXCEPT ![p] = Append(@, <<"FAILURE", 0>>)]
            /\ meta' = [meta EXCEPT ![p] = UpdateState("FAILURE", 0)]
            /\ index' = index
       ELSE /\ procs' = [procs EXCEPT ![p].pc = "finish"]
            /\ index' = add_chunks(index, backend, pr.content,
                                   ChunkCount[pr.content], pr.doc, pr.user)
            /\ UNCHANGED <<reports, meta>>
    /\ UNCHANGED <<users, documents, query_logs, backend, side, polled, last_search,
                   today, submitted>>

\* Lines 123-140: recount the user's documents, progress 100, the result.
process_document_async_finish(p) ==
    LET pr == procs[p] IN
    /\ pr.kind = "ingest" /\ pr.pc = "finish"
    /\ users' = [users EXCEPT ![pr.user].document_count =
                    Cardinality(UserDocuments(pr.user))]
    /\ procs' = [procs EXCEPT ![p].pc = "done"]
    /\ reports' = [reports EXCEPT ![p] = Append(@, <<"SUCCESS", 100>>)]
    /\ meta' = [meta EXCEPT ![p] = Returned(
                  [NoResult EXCEPT !.status = "success", !.document_id = pr.doc,
                                   !.chunk_count = ChunkCount[pr.content]])]
    /\ UNCHANGED <<documents, query_logs, index, backend, side, polled, last_search,
                   today, submitted>>

(***************************************************************************)
(* app/qa/routes.py: POST /qa/upload, processed in the request             *)
(***************************************************************************)
\* Lines 38-103: the checks, the text, the duplicate pre-check.  A request the
\* checks refuse (HTTP 400) changes nothing.
upload_document_sync(p, u, up) ==
    /\ NextFree(p)
    /\ UploadAccepted(u, up)
    /\ process_document(up).ok
    /\ ExistingDoc(u, calculate_hash(up.content)) = {}
    /\ Take(p, NewProc("upload", u, up, "persist"))
    /\ UNCHANGED <<users, documents, query_logs, index, backend, side, last_search, today>>

\* Lines 92-103 and 138-142, use_async false: the user has a document with
\* this content hash.  The HTTPException(400) is raised inside the try block,
\* where `except Exception` catches it and raises HTTPException(500) instead.
upload_document_duplicate(p, u, up) ==
    /\ NextFree(p)
    /\ UploadAccepted(u, up)
    /\ process_document(up).ok
    /\ ExistingDoc(u, calculate_hash(up.content)) # {}
    /\ Take(p, [NewProc("upload", u, up, "done") EXCEPT
                   !.http = 500, !.error = "Error processing document"])
    /\ UNCHANGED <<users, documents, query_logs, index, backend, side, last_search, today>>

\* POST /qa/upload, the whole of the handler's first step.
upload_document(p, u, up, use_async) ==
    IF ~UploadAccepted(u, up) THEN upload_document_refused(p, u, up)
    ELSE IF use_async THEN upload_document_async(p, u, up)
    ELSE IF ExistingDoc(u, calculate_hash(up.content)) # {}
    THEN upload_document_duplicate(p, u, up)
    ELSE upload_document_sync(p, u, up)

\* Lines 105-118: split and insert the Document row; an error is HTTP 500.
upload_document_persist(p) ==
    LET pr == procs[p]
        row == NewDocument(pr.user, pr.filename, pr.content, ChunkCount[pr.content])
    IN
    /\ pr.kind = "upload" /\ pr.pc = "persist"
    /\ IF ~InsertAllowed(pr.user, row.content_hash)
       THEN /\ procs' = [procs EXCEPT ![p].pc = "done", ![p].http = 500,
                                      ![p].error = "IntegrityError"]
            /\ documents' = documents
       ELSE /\ procs' = [procs EXCEPT ![p].pc = "index", ![p].doc = row.id]
            /\ documents' = documents \cup {row}
    /\ UNCHANGED <<users, query_logs, index, backend, side, meta, reports, polled,
                   last_search, today, submitted>>

\* Line 121: vector_store.add_chunks.
upload_document_index(p, fails) ==
    LET pr == procs[p] IN
    /\ pr.kind = "upload" /\ pr.pc = "index"
    /\ IF fails
       THEN /\ procs' = [procs EXCEPT ![p].pc = "done", ![p].http = 500,
                                      ![p].error = "vector store unavailable"]
            /\ index' = index
       ELSE /\ procs' = [procs EXCEPT ![p].pc = "finish"]
            /\ index' = add_chunks(index, backend, pr.content,
                                   ChunkCount[pr.content], pr.doc, pr.user)
    /\ UNCHANGED <<users, documents, query_logs, backend, side, meta, reports, polled,
                   last_search, today, submitted>>

\* Lines 123-132: recount the user's documents and answer "completed".
upload_document_finish(p) ==
    LET pr == procs[p] IN
    /\ pr.kind = "upload" /\ pr.pc = "finish"
    /\ users' = [users EXCEPT ![pr.user].document_count =
                    Cardinality(UserDocuments(pr.user))]
    /\ procs' = [procs EXCEPT ![p].pc = "done", ![p].http = 200]
    /\ UNCHANGED <<documents, query_logs, index, backend, side, meta, reports, polled,
                   last_search, today, submitted>>

(***************************************************************************)
(* app/tasks/document_tasks.py: delete_document_async                      *)
(***************************************************************************)
\* DELETE /qa/documents/{id} with use_async: the route looks the document up
\* (404 when the caller has no such document) and submits the job.
delete_document_async_route(p, u, d) ==
    /\ NextFree(p)
    /\ FindDocument(d, u) # {}
    /\ Take(p, [FreeProc EXCEPT !.kind = "delete", !.user = u, !.doc = d,
                                !.pc = "queued"])
    /\ UNCHANGED <<users, documents, query_logs, index, backend, side, last_search, today>>

ErrorResult(msg) == [NoResult EXCEPT !.status = "error", !.error = msg]

\* Lines 163-173: find the document, delete its chunks from the vector index.
\* The task catches every exception and returns it as an "error" result.
delete_document_async_begin(p, fails) ==
    LET pr == procs[p] IN
    /\ pr.kind = "delete" /\ pr.pc = "queued"
    /\ IF FindDocument(pr.doc, pr.user) = {}
       THEN /\ ~fails
            /\ procs' = [procs EXCEPT ![p].pc = "done", ![p].runs = @ + 1]
            /\ meta' = [meta EXCEPT ![p] = Returned(ErrorResult("Document not found"))]
            /\ index' = index
       ELSE IF fails
       THEN /\ procs' = [procs EXCEPT ![p].pc = "done", ![p].runs = @ + 1]
            /\ meta' = [meta EXCEPT ![p] =
                          Returned(ErrorResult("vector store unavailable"))]
            /\ index' = index
       ELSE /\ procs' = [procs EXCEPT ![p].pc = "commit", ![p].runs = @ + 1]
            /\ meta' = meta
            /\ index' = delete_document_chunks(index, pr.doc, pr.user)
    /\ UNCHANGED <<users, documents, query_logs, backend, side, reports, polled,
                   last_search, today, submitted>>

\* The count the session reads between db.delete(document) and db.commit():
\* the session does not autoflush, so the row marked for deletion is counted.
CountBeforeFlush(u) == Cardinality(UserDocuments(u))

\* Lines 175-189: delete the row, recount, commit.  When another deletion has
\* removed the row in the meantime the DELETE matches nothing, which the ORM
\* reports as a warning: the commit goes through and the task returns success.
delete_document_async_commit(p) ==
    LET pr == procs[p] IN
    /\ pr.kind = "delete" /\ pr.pc = "commit"
    /\ documents' = documents \ FindDocument(pr.doc, pr.user)
    /\ users' = [users EXCEPT ![pr.user].document_count = CountBeforeFlush(pr.user)]
    /\ meta' = [meta EXCEPT ![p] = Returned(
                  [NoResult EXCEPT !.status = "success", !.document_id = pr.doc])]
    /\ procs' = [procs EXCEPT ![p].pc = "done"]
    /\ UNCHANGED <<query_logs, index, backend, side, reports, polled, last_search,
                   today, submitted>>

(***************************************************************************)
(* app/tasks/document_tasks.py: bulk_delete_user_documents                 *)
(***************************************************************************)
bulk_delete_user_documents_delay(p, u) ==
    /\ NextFree(p)
    /\ u \in Users
    /\ Take(p, [FreeProc EXCEPT !.kind = "bulk", !.user = u, !.pc = "queued"])
    /\ UNCHANGED <<users, documents, query_logs, index, backend, side, last_search, today>>

\* Lines 208-212: list the user's documents, delete the user's vectors.
bulk_delete_user_documents_begin(p, fails) ==
    LET pr == procs[p] IN
    /\ pr.kind = "bulk" /\ pr.pc = "queued"
    /\ IF fails
       THEN /\ procs' = [procs EXCEPT ![p].pc = "done", ![p].runs = @ + 1]
            /\ meta' = [meta EXCEPT ![p] =
                          Returned(ErrorResult("vector store unavailable"))]
            /\ index' = index
       ELSE /\ procs' = [procs EXCEPT ![p].pc = "commit", ![p].runs = @ + 1,
                                      ![p].docs = {d.id : d \in UserDocuments(pr.user)}]
            /\ meta' = meta
            /\ index' = delete_user_data(index, pr.user)
    /\ UNCHANGED <<users, documents, query_logs, backend, side, reports, polled,
                   last_search, today, submitted>>

\* A bulk deletion that also deletes the query log records of the user.
bulk_delete_user_documents_commit_with_logs(p) ==
    LET pr == procs[p]
        listed == {d \in documents : d.id \in pr.docs /\ d.user_id = pr.user}
    IN
    /\ pr.kind = "bulk" /\ pr.pc = "commit"
    /\ documents' = documents \ listed
    /\ query_logs' = SelectSeq(query_logs, LAMBDA r : r.user_id # pr.user)
    /\ users' = [users EXCEPT ![pr.user].document_count = 0]
    /\ meta' = [meta EXCEPT ![p] = Returned(
                  [NoResult EXCEPT !.status = "success",
                                   !.chunk_count = Cardinality(pr.docs)])]
    /\ procs' = [procs EXCEPT ![p].pc = "done"]
    /\ UNCHANGED <<index, backend, side, reports, polled, last_search,
                   today, submitted>>

\* Lines 214-229: delete the listed rows, set the count to 0, commit.  A
\* listed row that is gone by now is a DELETE that matches nothing (a warning).
bulk_delete_user_documents_commit(p) ==
    LET pr == procs[p]
        listed == {d \in documents : d.id \in pr.docs /\ d.user_id = pr.user}
    IN
    /\ pr.kind = "bulk" /\ pr.pc = "commit"
    /\ documents' = documents \ listed
    /\ users' = [users EXCEPT ![pr.user].document_count = 0]
    /\ meta' = [meta EXCEPT ![p] = Returned(
                  [NoResult EXCEPT !.status = "success",
                                   !.chunk_count = Cardinality(pr.docs)])]
    /\ procs' = [procs EXCEPT ![p].pc = "done"]
    /\ UNCHANGED <<query_logs, index, backend, side, reports, polled, last_search,
                   today, submitted>>

(***************************************************************************)
(* app/qa/routes.py: DELETE /qa/documents/{document_id}                    *)
(***************************************************************************)
\* Lines 395-404: the caller has no document of that id (none exists, or it
\* is another user's); the request is answered 404 on both branches.
delete_document_not_found(p, u, d) ==
    /\ NextFree(p)
    /\ FindDocument(d, u) = {}
    /\ Take(p, [FreeProc EXCEPT !.kind = "delete_route", !.user = u, !.doc = d,
                                !.pc = "done", !.http = 404,
                                !.error = "Document not found"])
    /\ UNCHANGED <<users, documents, query_logs, index, backend, side, last_search, today>>

\* delete_document_async.delay(document_id, user_id) called directly, with
\* any pair of ids.
delete_document_async_delay(p, d, u) ==
    /\ NextFree(p)
    /\ Take(p, [FreeProc EXCEPT !.kind = "delete", !.user = u, !.doc = d,
                                !.pc = "queued"])
    /\ UNCHANGED <<users, documents, query_logs, index, backend, side, last_search, today>>

\* use_async false, lines 416-420: the document was found and its chunks are
\* deleted from the vector index; an error is HTTP 500.
delete_document_sync(p, u, d, fails) ==
    /\ NextFree(p)
    /\ FindDocument(d, u) # {}
    /\ IF fails
       THEN /\ Take(p, [FreeProc EXCEPT !.kind = "delete_route", !.user = u, !.doc = d,
                                        !.pc = "done", !.http = 500,
                                        !.error = "vector store unavailable"])
            /\ index' = index
       ELSE /\ Take(p, [FreeProc EXCEPT !.kind = "delete_route", !.user = u, !.doc = d,
                                        !.pc = "commit"])
            /\ index' = delete_document_chunks(index, d, u)
    /\ UNCHANGED <<users, documents, query_logs, backend, side, last_search, today>>

\* The count the request's session reads after db.delete(document).  The
\* session comes from get_db (app/database/connection.py): it counts the row
\* marked for deletion unless it flushes before the query.
CountInRoute(u, d, autoflush) ==
    IF autoflush THEN Cardinality(UserDocuments(u) \ FindDocument(d, u))
    ELSE Cardinality(UserDocuments(u))

\* Lines 422-429: delete the row, recount, commit, answer 200.
delete_document_sync_commit(p, autoflush) ==
    LET pr == procs[p] IN
    /\ pr.kind = "delete_route" /\ pr.pc = "commit"
    /\ documents' = documents \ FindDocument(pr.doc, pr.user)
    /\ users' = [users EXCEPT ![pr.user].document_count =
                    CountInRoute(pr.user, pr.doc, autoflush)]
    /\ procs' = [procs EXCEPT ![p].pc = "done", ![p].http = 200]
    /\ UNCHANGED <<query_logs, index, backend, side, meta, reports, polled,
                   last_search, today, submitted>>

(***************************************************************************)
(* app/utils/document_processor.py: split_text_into_chunks, step by step.  *)
(***************************************************************************)
\* The texts split: every string of up to MaxTextLen characters over a
\* letter, a sentence end and a line break (which is whitespace too).
Alphabet == {"a", ".", "\n"}
Texts == UNION {[1..n -> Alphabet] : n \in 0..MaxTextLen}

\* A call split_text_into_chunks(text, chunk_size, overlap) about to run.
SplitCall(text, chunk_size, overlap) ==
    [NoSplit EXCEPT !.text = text, !.chunk_size = chunk_size,
                    !.overlap = overlap, !.pc = "called"]

\* The same function one loop iteration at a time, on the call held in
\* `split`.  Lines 52-56: a text that fits is returned whole, else the loop
\* is entered with start 0.
split_text_into_chunks_enter ==
    /\ split.pc = "called"
    /\ IF Len(split.text) <= split.chunk_size
       THEN split' = [split EXCEPT !.chunks = <<split.text>>, !.pc = "done"]
       ELSE split' = [split EXCEPT !.start = 0, !.pc = "loop"]
    /\ UNCHANGED <<users, documents, query_logs, index, backend, pool, procs, meta,
                   reports, polled, last_search, today, submitted, redis, revoked,
                   monitor, llm>>

\* Lines 58-77, one iteration: the window, its stripped text if not empty,
\* the next start, and the exit when that is past the text.  The loop is
\* followed for MaxIterations windows.
split_text_into_chunks_iterate ==
    LET end == WindowEnd(split.text, split.start, split.chunk_size)
        chunk == strip(Slice(split.text, split.start, end))
        next == NextStart(end, split.overlap)
    IN
    /\ split.pc = "loop"
    /\ Len(split.windows) < MaxIterations
    /\ split' = [split EXCEPT
                   !.end = end,
                   !.windows = Append(@, <<split.start, end>>),
                   !.chunks = IF chunk # <<>> THEN Append(@, chunk) ELSE @,
                   !.start = next,
                   !.pc = IF next >= Len(split.text) THEN "done" ELSE "loop"]
    /\ UNCHANGED <<users, documents, query_logs, index, backend, pool, procs, meta,
                   reports, polled, last_search, today, submitted, redis, revoked,
                   monitor, llm>>

(***************************************************************************)
(* app/qa/services.py: the answer strategies.  A string is the sequence of *)
(* its pieces: single characters, and the fixed sentences of the code as   *)
(* one piece each.                                                         *)
(***************************************************************************)
NotEnoughInformation ==
    <<"I don't have enough information to answer this question. Please upload relevant documents first.">>
CouldNotGenerate ==
    <<"I couldn't generate a proper answer. Please try rephrasing your question.">>

\* The questions asked, and the words of the keyword lists that
\* question.lower() contains.
Questions == {"What is the process?", "How is it done?", "When was it?", "Tell me more."}
QuestionWords(question) ==
    CASE question = "What is the process?" -> {"what", "process"}
      [] question = "How is it done?" -> {"how"}
      [] question = "When was it?" -> {"when"}
      [] OTHER -> {}

\* "\n\n".join(chunks)
RECURSIVE Join(_)
Join(chunks) ==
    IF chunks = <<>> THEN <<>>
    ELSE IF Len(chunks) = 1 THEN Head(chunks)
    ELSE Head(chunks) \o <<"\n", "\n">> \o Join(Tail(chunks))

\* s[:n]
Prefix(s, n) == SubSeq(s, 1, Min2(n, Len(s)))

\* The opening of the templated answer: the first keyword list that matches.
Template(question) ==
    LET words == QuestionWords(question) IN
    IF words \cap {"what", "define", "definition"} # {}
    THEN <<"Based on the provided context:\n\n">>
    ELSE IF words \cap {"how", "explain", "process"} # {}
    THEN <<"Here's how it works according to the documents:\n\n">>
    ELSE IF words \cap {"when", "time", "date"} # {}
    THEN <<"According to the information available:\n\n">>
    ELSE <<"Based on the relevant information I found:\n\n">>

\* SimpleLLM.generate_answer, lines 13-31.
SimpleLLM_generate_answer(question, context) ==
    IF context = <<>> THEN NotEnoughInformation
    ELSE Template(question)
         \o Prefix(Join(Prefix(context, simple_context_chunks)), answer_context_limit)
         \o <<"...">>

\* What the network backend does with a request: requests.post or
\* chat.completions.create raises (time-out, connection error), answers with
\* a non-success status, with a body that is not the expected JSON, with JSON
\* that lacks the answer field or holds null there, or with a text.
Outcomes ==
    {"timeout", "connection_error", "bad_status", "malformed", "no_answer_field",
     "null_answer", "ok"}
FailureOutcomes == {"timeout", "connection_error", "bad_status", "malformed"}
ResponseTexts == {<<>>, <<" ">>, <<"4", "2">>, <<" ", "4", "2", "\n">>}

\* An OllamaLLM that sends the request without looking at the context first.
OllamaLLM_generate_answer_unchecked(question, context, outcome, text) ==
    CASE outcome = "ok" -> IF strip(text) # <<>> THEN strip(text) ELSE CouldNotGenerate
      [] outcome = "no_answer_field" -> CouldNotGenerate
      [] OTHER -> SimpleLLM_generate_answer(question, context)

\* OllamaLLM.generate_answer, lines 54-114.  Status 200: the stripped
\* "response" field (default ""), or a fixed sentence when that is empty; an
\* AttributeError on a null field and every other failure: the SimpleLLM.
OllamaLLM_generate_answer(question, context, outcome, text) ==
    IF context = <<>> THEN NotEnoughInformation
    ELSE CASE outcome = "ok" ->
                 IF strip(text) # <<>> THEN strip(text) ELSE CouldNotGenerate
           [] outcome = "no_answer_field" -> CouldNotGenerate
           [] OTHER -> SimpleLLM_generate_answer(question, context)

\* OpenAILLM.generate_answer, lines 204-237.  Without a client the SimpleLLM
\* answers; the completion's content is returned stripped, as it is; an
\* exception (the call, an empty choices list, a null content): the SimpleLLM.
OpenAILLM_generate_answer(client, question, context, outcome, text) ==
    IF ~client THEN SimpleLLM_generate_answer(question, context)
    ELSE IF context = <<>> THEN NotEnoughInformation
    ELSE IF outcome = "ok" THEN strip(text)
    ELSE SimpleLLM_generate_answer(question, context)

\* QAService.__init__, lines 286-308: the strategy in use.  "openai_no_key"
\* is an OpenAILLM built without an API key.
Strategies == {"simple", "ollama", "openai", "openai_no_key"}

\* The contexts handed to generate_answer: up to MaxContext retrieved chunks.
ContextChunks == {<<"a">>, <<"b", ".">>}
Contexts == UNION {[1..n -> ContextChunks] : n \in 0..MaxContext}

\* Whether the call reaches the network: not with an empty context, not
\* without a client.
CallsBackend(strategy, context) ==
    strategy \in {"ollama", "openai"} /\ context # <<>>

\* qa_service.llm.generate_answer(question, context) on a strategy whose
\* backend, if called, behaves as `outcome` and `text` say.
generate_answer_call(strategy, question, context, outcome, text) ==
    /\ llm' = [strategy |-> strategy, question |-> question, context |-> context,
               outcome |-> outcome, text |-> text,
               called |-> CallsBackend(strategy, context),
               answer |->
                  CASE strategy = "simple" ->
                         SimpleLLM_generate_answer(question, context)
                    [] strategy = "ollama" ->
                         OllamaLLM_generate_answer(question, context, outcome, text)
                    [] strategy = "openai" ->
                         OpenAILLM_generate_answer(TRUE, question, context, outcome, text)
                    [] OTHER ->
                         OpenAILLM_generate_answer(FALSE, question, context, outcome, text)]
    /\ UNCHANGED <<users, documents, query_logs, index, backend, pool, procs, meta,
                   reports, polled, last_search, today, submitted, redis, revoked,
                   monitor, split>>

(***************************************************************************)
(* Questions: the rate limit, the answer, the query log.                   *)
(***************************************************************************)
\* The check of lines 59-63 of qa_tasks.py and 196-204, 294-302 of routes.py:
\* the stored date is today's and the count has reached the maximum.
\* A check that lets the user through while the count only equals the maximum.
RateLimited_above(row, day) ==
    /\ rate_limit_enabled
    /\ row.last_query_date # NoDate /\ row.last_query_date = day
    /\ row.query_count_today > max_queries_per_hour

SameDay(row, day) == row.last_query_date # NoDate /\ row.last_query_date = day
RateLimited(row, day) ==
    /\ rate_limit_enabled
    /\ SameDay(row, day)
    /\ row.query_count_today >= max_queries_per_hour

\* SimpleLLM.generate_answer: a fixed sentence without context, else a text
\* built from the first three chunks of the context (given by their number).
generate_answer(context) ==
    IF context = 0 THEN NotEnoughInformation
    ELSE <<"based on", Min2(context, 3), "chunks">>

\* QueryLog(user_id, question, answer, response_time, chunks_used)
QueryLog(u, answer, n, day) ==
    [user_id |-> u, answer |-> answer, chunks_used |-> n, created_at |-> day]

Question(kind, u, pc) == [FreeProc EXCEPT !.kind = kind, !.user = u, !.pc = pc]

\* A request the route refuses with HTTP 429: nothing is read or written.
Refused(kind, u) ==
    [FreeProc EXCEPT !.kind = kind, !.user = u, !.pc = "done", !.http = 429]

(***************************************************************************)
(* app/qa/routes.py: POST /qa/ask                                          *)
(***************************************************************************)
\* use_async false: the rate-limit check, then QAService.answer_question
\* (search, answer, QueryLog, commit).  The route does not count the question.
ask_question(p, u, fails) ==
    /\ NextFree(p)
    /\ u \in Users
    /\ IF RateLimited(users[u], today)
       THEN /\ ~fails
            /\ Take(p, Refused("ask", u))
            /\ query_logs' = query_logs
       ELSE IF fails
       THEN /\ Take(p, [Question("ask", u, "done") EXCEPT
                           !.http = 500, !.error = "vector store unavailable"])
            /\ query_logs' = query_logs
       ELSE \E hits \in SearchResults(index, u, top_k_default) :
               LET answer == generate_answer(Cardinality(hits)) IN
               /\ Take(p, [Question("ask", u, "done") EXCEPT
                              !.http = 200, !.chunks_used = Cardinality(hits)])
               /\ query_logs' = Append(query_logs,
                                       QueryLog(u, answer, Cardinality(hits), today))
    /\ UNCHANGED <<users, documents, index, backend, side, last_search, today>>

\* use_async true: the rate-limit check, then answer_question_async.delay.
ask_question_async(p, u) ==
    /\ NextFree(p)
    /\ u \in Users
    /\ IF RateLimited(users[u], today)
       THEN Take(p, Refused("ask", u))
       ELSE Take(p, Question("qa", u, "queued"))
    /\ UNCHANGED <<users, documents, query_logs, index, backend, side, last_search, today>>

\* Lines 189-193: a question that is empty after strip() is refused with
\* HTTP 400 before anything else is looked at.
ask_question_blank(p, u) ==
    /\ NextFree(p)
    /\ u \in Users
    /\ Take(p, [Question("ask", u, "done") EXCEPT
                   !.http = 400, !.error = "Question cannot be empty"])
    /\ UNCHANGED <<users, documents, query_logs, index, backend, side, last_search, today>>

\* POST /qa/ask with the text of the question, on either branch.
ask_question_text(p, u, question, use_async, fails) ==
    IF strip(question) = <<>> THEN ~fails /\ ask_question_blank(p, u)
    ELSE IF use_async THEN ~fails /\ ask_question_async(p, u)
    ELSE ask_question(p, u, fails)

\* self.llm.generate_answer(question, context) on the strategy in use.
llm_generate_answer(strategy, question, context, outcome, text) ==
    CASE strategy = "simple" -> SimpleLLM_generate_answer(question, context)
      [] strategy = "ollama" -> OllamaLLM_generate_answer(question, context, outcome, text)
      [] strategy = "openai" ->
             OpenAILLM_generate_answer(TRUE, question, context, outcome, text)
      [] OTHER -> OpenAILLM_generate_answer(FALSE, question, context, outcome, text)

\* [chunk['content'] for chunk in similar_chunks]: one text a chunk found.
ContextOf(hits) == [i \in 1..Cardinality(hits) |-> <<"a">>]

\* QAService.answer_question, services.py lines 312-341: search with top_k=5,
\* the answer of the strategy, a QueryLog with the elapsed milliseconds and
\* the number of chunks found, commit, return the answer.  `elapsed` is the
\* difference of the two time.time() readings.
answer_question(u, strategy, question, outcome, text, elapsed) ==
    \E hits \in SearchResults(index, u, top_k_default) :
        LET context == ContextOf(hits)
            answer == llm_generate_answer(strategy, question, context, outcome, text)
        IN
        /\ last_search' = [user_id |-> u, top_k |-> top_k_default, hits |-> hits,
                           stored |-> Cardinality(UserFilter(index, u))]
        /\ llm' = [strategy |-> strategy, question |-> question, context |-> context,
                   outcome |-> outcome, text |-> text,
                   called |-> CallsBackend(strategy, context), answer |-> answer]
        /\ query_logs' = Append(query_logs,
                                [response_time |-> elapsed]
                                   @@ QueryLog(u, answer, Cardinality(hits), today))
        /\ UNCHANGED <<users, documents, index, backend, pool, procs, meta, reports, polled,
                       today, submitted, redis, revoked, monitor, split>>

\* POST /qa/system/priority-question: the job is submitted without a check.
ask_priority_question(p, u) ==
    /\ NextFree(p)
    /\ u \in Users
    /\ Take(p, Question("qa", u, "queued"))
    /\ UNCHANGED <<users, documents, query_logs, index, backend, side, last_search, today>>

\* answer_question_async.delay called directly, also with a user id that
\* has no row.
answer_question_async_delay(p, u) ==
    /\ NextFree(p)
    /\ u \in UserIds
    /\ Take(p, Question("qa", u, "queued"))
    /\ UNCHANGED <<users, documents, query_logs, index, backend, side, last_search, today>>

(***************************************************************************)
(* app/tasks/qa_tasks.py: answer_question_async                            *)
(***************************************************************************)
\* Lines 47-73: progress 0, the user, the rate limit, progress 25.  On a new
\* day the session's copy of the row is reset; it is written at the commit.
answer_question_async_begin(p) ==
    LET pr == [procs[p] EXCEPT !.runs = @ + 1]
        u == pr.user
    IN
    /\ pr.kind = "qa" /\ pr.pc = "queued" /\ Due(pr)
    /\ IF u \notin DOMAIN users
       THEN /\ procs' = [procs EXCEPT ![p] = Raise(pr, "User not found")]
            /\ reports' = [reports EXCEPT ![p] =
                             <<<<"PROCESSING", 0>>, <<"FAILURE", 0>>>>]
            /\ meta' = [meta EXCEPT ![p] = UpdateState("FAILURE", 0)]
       ELSE IF RateLimited(users[u], today)
       THEN /\ procs' = [procs EXCEPT ![p] = Raise(pr, "Rate limit exceeded")]
            /\ reports' = [reports EXCEPT ![p] =
                             <<<<"PROCESSING", 0>>, <<"FAILURE", 0>>>>]
            /\ meta' = [meta EXCEPT ![p] = UpdateState("FAILURE", 0)]
       ELSE /\ procs' = [procs EXCEPT ![p] =
                           IF rate_limit_enabled /\ ~SameDay(users[u], today)
                           THEN [pr EXCEPT !.pc = "search", !.count = 0,
                                           !.date = today]
                           ELSE [pr EXCEPT !.pc = "search",
                                           !.count = users[u].query_count_today,
                                           !.date = users[u].last_query_date]]
            /\ reports' = [reports EXCEPT ![p] =
                             <<<<"PROCESSING", 0>>, <<"PROCESSING", 25>>>>]
            /\ meta' = [meta EXCEPT ![p] = UpdateState("PROCESSING", 25)]
    /\ UNCHANGED <<users, documents, query_logs, index, backend, side, polled,
                   last_search, today, submitted>>

\* Lines 75-96: the search; without context the task returns "no_context",
\* with context it reports progress 50.
answer_question_async_search(p, fails) ==
    LET pr == procs[p] IN
    /\ pr.kind = "qa" /\ pr.pc = "search"
    /\ IF fails
       THEN /\ procs' = [procs EXCEPT ![p] = Raise(pr, "vector store unavailable")]
            /\ reports' = [reports EXCEPT ![p] = Append(@, <<"FAILURE", 0>>)]
            /\ meta' = [meta EXCEPT ![p] = UpdateState("FAILURE", 0)]
       ELSE \E hits \in SearchResults(index, pr.user, top_k_default) :
               IF hits = {}
               THEN /\ procs' = [procs EXCEPT ![p].pc = "done"]
                    /\ reports' = reports
                    /\ meta' = [meta EXCEPT ![p] = Returned(
                                  [NoResult EXCEPT !.status = "no_context",
                                                   !.answer = <<"no information">>])]
               ELSE /\ procs' = [procs EXCEPT ![p].pc = "generate",
                                              ![p].chunks_used = Cardinality(hits)]
                    /\ reports' = [reports EXCEPT ![p] =
                                     Append(@, <<"PROCESSING", 50>>)]
                    /\ meta' = [meta EXCEPT ![p] = UpdateState("PROCESSING", 50)]
    /\ UNCHANGED <<users, documents, query_logs, index, backend, side, polled,
                   last_search, today, submitted>>

\* Lines 98-136: the answer, progress 90, the QueryLog and the counter in one
\* commit, progress 100, the result.  The counter written is the session's
\* copy of the row plus one.
answer_question_async_finish(p) ==
    LET pr == procs[p]
        answer == generate_answer(pr.chunks_used)
    IN
    /\ pr.kind = "qa" /\ pr.pc = "generate"
    /\ query_logs' = Append(query_logs,
                            QueryLog(pr.user, answer, pr.chunks_used, today))
    /\ users' = [users EXCEPT ![pr.user].query_count_today = pr.count + 1,
                              ![pr.user].last_query_date = today]
    /\ procs' = [procs EXCEPT ![p].pc = "done"]
    /\ reports' = [reports EXCEPT ![p] =
                     @ \o <<<<"PROCESSING", 90>>, <<"SUCCESS", 100>>>>]
    /\ meta' = [meta EXCEPT ![p] = Returned(
                  [NoResult EXCEPT !.status = "success", !.answer = answer,
                                   !.chunks_used = pr.chunks_used])]
    /\ UNCHANGED <<documents, index, backend, side, polled, last_search, today,
                   submitted>>

(***************************************************************************)
(* app/qa/routes.py: POST /qa/ask/stream                                   *)
(***************************************************************************)
\* Lines 287-302 and 368: the rate-limit check on the user row loaded with
\* the request; the response is then produced by generate_response.
ask_question_stream(p, u) ==
    /\ NextFree(p)
    /\ u \in Users
    /\ IF RateLimited(users[u], today)
       THEN Take(p, Refused("stream", u))
       ELSE Take(p, [Question("stream", u, "search") EXCEPT
                        !.http = 200,
                        !.count = users[u].query_count_today,
                        !.date = users[u].last_query_date])
    /\ UNCHANGED <<users, documents, query_logs, index, backend, side, last_search, today>>

\* An event of the response: data: {"type": ..., "content" or "message": ...}.
Event(type, content) == [type |-> type, content |-> content]

\* Lines 312-327: a status event, the search, an error event without context.
generate_response_search(p, fails) ==
    LET pr == procs[p]
        status == Event("status", <<"Searching for relevant information...">>)
    IN
    /\ pr.kind = "stream" /\ pr.pc = "search"
    /\ IF fails
       THEN procs' = [procs EXCEPT
                        ![p].pc = "done",
                        ![p].events = <<status, Event("error", <<"Error generating answer">>)>>]
       ELSE \E hits \in SearchResults(index, pr.user, top_k_default) :
               IF hits = {}
               THEN procs' = [procs EXCEPT
                                ![p].pc = "done",
                                ![p].events =
                                    <<status, Event("error", <<"No relevant documents found">>)>>]
               ELSE procs' = [procs EXCEPT
                                ![p].pc = "generate",
                                ![p].chunks_used = Cardinality(hits),
                                ![p].events =
                                    <<status, Event("status", <<"Generating answer...">>)>>]
    /\ UNCHANGED <<users, documents, query_logs, index, backend, side, meta, reports,
                   polled, last_search, today, submitted>>

\* generate_answer_stream: the pieces the strategy yields, in order.
generate_answer_stream(context) == generate_answer(context)

\* Lines 331-341, one round of the `async for`: the next piece is added to
\* full_answer and sent as a chunk event; or the generation raises and the
\* except clause of line 365 sends the error event.
generate_response_chunk(p, fails) ==
    LET pr == procs[p]
        stream == generate_answer_stream(pr.chunks_used)
    IN
    /\ pr.kind = "stream" /\ pr.pc = "generate"
    /\ Len(pr.full_answer) < Len(stream)
    /\ IF fails
       THEN procs' = [procs EXCEPT
                        ![p].pc = "done",
                        ![p].events = Append(@, Event("error", <<"Error generating answer">>))]
       ELSE LET chunk == <<stream[Len(pr.full_answer) + 1]>> IN
            procs' = [procs EXCEPT
                        ![p].full_answer = @ \o chunk,
                        ![p].events = Append(@, Event("chunk", chunk))]
    /\ UNCHANGED <<users, documents, query_logs, index, backend, side, meta, reports,
                   polled, last_search, today, submitted>>

\* A response that adds the QueryLog and sends the complete event whether or
\* not the commit went through.
generate_response_finish_uncommitted(p, fails) ==
    LET pr == procs[p] IN
    /\ pr.kind = "stream" /\ pr.pc = "generate"
    /\ Len(pr.full_answer) = Len(generate_answer_stream(pr.chunks_used))
    /\ query_logs' = IF fails THEN query_logs
                     ELSE Append(query_logs,
                                 QueryLog(pr.user, pr.full_answer, pr.chunks_used, today))
    /\ users' = IF fails THEN users
                ELSE [users EXCEPT ![pr.user].query_count_today = pr.count + 1,
                                   ![pr.user].last_query_date = today]
    /\ procs' = [procs EXCEPT ![p].pc = "done",
                              ![p].events = Append(@, Event("complete", <<>>))]
    /\ UNCHANGED <<documents, index, backend, side, meta, reports, polled,
                   last_search, today, submitted>>

\* Lines 343-366, after the last piece: the QueryLog and the counter in one
\* commit, then the complete event; a commit that raises leaves nothing
\* stored and the except clause sends the error event.  The counter written
\* is the request's copy of the row plus one; the date is not compared with
\* today's.
generate_response_finish(p, fails) ==
    LET pr == procs[p] IN
    /\ pr.kind = "stream" /\ pr.pc = "generate"
    /\ Len(pr.full_answer) = Len(generate_answer_stream(pr.chunks_used))
    /\ IF fails
       THEN /\ procs' = [procs EXCEPT
                           ![p].pc = "done",
                           ![p].events =
                               Append(@, Event("error", <<"Error generating answer">>))]
            /\ UNCHANGED <<query_logs, users>>
       ELSE /\ query_logs' = Append(query_logs,
                                    QueryLog(pr.user, pr.full_answer, pr.chunks_used,
                                             today))
            /\ users' = [users EXCEPT ![pr.user].query_count_today = pr.count + 1,
                                      ![pr.user].last_query_date = today]
            /\ procs' = [procs EXCEPT ![p].pc = "done",
                                      ![p].events = Append(@, Event("complete", <<>>))]
    /\ UNCHANGED <<documents, index, backend, side, meta, reports, polled,
                   last_search, today, submitted>>

(***************************************************************************)
(* app/tasks/user_tasks.py: update_user_stats, run by the beat schedule    *)
(***************************************************************************)
\* Lines 83-94: recount the documents of every user, reset the counter of a
\* user whose last question was asked before today.
\* A statistics job that adds the number of documents to the stored count.
UpdatedUsers_added(rows, docs, day) ==
    [u \in Users |->
        [rows[u] EXCEPT
           !.document_count = @ + Cardinality({d \in docs : d.user_id = u}),
           !.query_count_today =
               IF rows[u].last_query_date # NoDate /\ rows[u].last_query_date < day
               THEN 0 ELSE @]]

\* The user rows the loop of lines 83-92 leaves, from the rows, the documents
\* table and the date it reads.
UpdatedUsers(rows, docs, day) ==
    [u \in Users |->
        [rows[u] EXCEPT
           !.document_count = Cardinality({d \in docs : d.user_id = u}),
           !.query_count_today =
               IF rows[u].last_query_date # NoDate /\ rows[u].last_query_date < day
               THEN 0 ELSE @]]

update_user_stats ==
    /\ users' = UpdatedUsers(users, documents, today)
    /\ users' # users
    /\ UNCHANGED <<documents, query_logs, index, backend, side, procs, meta, reports,
                   polled, last_search, today, submitted>>

\* Midnight (UTC) passes.
NewDay ==
    /\ today < MaxDay
    /\ today' = today + 1
    /\ UNCHANGED <<users, documents, query_logs, index, backend, side, procs, meta,
                   reports, polled, last_search, submitted>>

(***************************************************************************)
(* Direct calls of the vector store, and status polls.                     *)
(***************************************************************************)
\* vector_store.add_chunks(chunks, document_id, user_id)
add_chunks_call(c, d, u) ==
    /\ index' = add_chunks(index, backend, c, ChunkCount[c], d, u)
    /\ UNCHANGED <<users, documents, query_logs, backend, side, procs, meta, reports,
                   polled, last_search, today, submitted>>

\* vector_store.delete_document_chunks(document_id, user_id)
delete_document_chunks_call(d, u) ==
    /\ index' = delete_document_chunks(index, d, u)
    /\ UNCHANGED <<users, documents, query_logs, backend, side, procs, meta, reports,
                   polled, last_search, today, submitted>>

\* vector_store.delete_user_data(user_id)
delete_user_data_call(u) ==
    /\ index' = delete_user_data(index, u)
    /\ UNCHANGED <<users, documents, query_logs, backend, side, procs, meta, reports,
                   polled, last_search, today, submitted>>

\* vector_store.search_similar_chunks(query, user_id, top_k); `stored` notes
\* how many entries of the user the index held when it was called.
search_similar_chunks_call(u, top_k) ==
    /\ \E hits \in SearchResults(index, u, top_k) :
          last_search' = [user_id |-> u, top_k |-> top_k, hits |-> hits,
                          stored |-> Cardinality({e \in index : e.user_id = u})]
    /\ UNCHANGED <<users, documents, query_logs, index, backend, side, procs, meta,
                   reports, polled, today, submitted>>

\* GET /qa/upload/status/{task_id}, GET /qa/ask/status/{task_id}:
\* AsyncResult(task_id).status.  A FAILURE the task wrote itself holds a dict
\* where the result backend expects an exception: reading it either gives
\* the state or raises, and the poll is then answered with an error.
WrittenByTask(m) == m.state = "FAILURE" /\ m.progress = 0
get_task_status(p, decodes) ==
    /\ procs[p].kind \in {"ingest", "qa", "delete", "bulk"}
    /\ decodes \/ WrittenByTask(meta[p])
    /\ polled' = [polled EXCEPT ![p] = IF decodes THEN meta[p].state ELSE "ERROR"]
    /\ UNCHANGED <<users, documents, query_logs, index, backend, side, procs, meta,
                   reports, today, last_search, submitted>>

(***************************************************************************)
(* app/utils/task_monitor.py: the side store in Redis, cancel and retry.   *)
(* A task id is the slot its job holds; the monitor's callers name ids of  *)
(* jobs that were submitted, and a job submitted here takes a slot no job  *)
(* held before, so that an id names one job.                               *)
(***************************************************************************)
TaskTypes == {"document_processing", "question_answering", "report_generation"}

\* user_id is Optional: None stands for a call without a caller.
NoCaller == 0

\* The metadata kept with a task: the parameters of a document job, nothing
\* the model distinguishes for the other types.
NoUpload == [filename |-> "", content |-> ""]
TrackedUploads == {up \in Uploads : up.filename = "a.txt"}
MetadataOf(task_type) ==
    IF task_type = "document_processing" THEN TrackedUploads ELSE {NoUpload}

\* Lines 47-63: lpush to the head of user_tasks:{user_id}, ltrim to the last
\* 100, setex task_meta:{task_id}.
Tracked(store, user_id, task_id, task_type, metadata) ==
    LET key == RedisKey("user_tasks", user_id, 0)
        pushed == lpush(store, "user_tasks", user_id, task_id)
        trimmed == ltrim(pushed, "user_tasks", user_id, 0, history_limit - 1)
        listed == expire(trimmed, key, 86400 * 7)
        written == [listed EXCEPT
                      !.task_meta[task_id] =
                          [user_id |-> user_id, task_type |-> task_type,
                           metadata |-> metadata]]
    IN  setex(written, RedisKey("task_meta", task_id, 0), 86400)

HistoryLength == Len(redis.user_tasks[1]) + Len(redis.user_tasks[2])
                   + Len(redis.user_tasks[NoUser])

track_user_task(user_id, task_id, task_type, metadata) ==
    /\ redis' = Tracked(redis, user_id, task_id, task_type, metadata)
    /\ UNCHANGED <<users, documents, query_logs, index, backend, pool, procs, meta,
                   reports, polled, last_search, today, submitted, revoked, monitor,
                   split, llm>>

\* setex(task_meta_key, 86400, ...): the key is gone a day after it was set.
expire_task_meta(task_id) ==
    /\ redis.task_meta[task_id] # NoMeta
    /\ redis' = del([redis EXCEPT !.task_meta[task_id] = NoMeta],
                     RedisKey("task_meta", task_id, 0))
    /\ UNCHANGED <<users, documents, query_logs, index, backend, pool, procs, meta,
                   reports, polled, last_search, today, submitted, revoked, monitor,
                   split, llm>>

\* get_user_tasks, lines 34-38: the ids lrange answers for 0..limit-1 (the
\* caller then reads the info of each, in this order).
get_user_tasks(user_id, limit) == lrange(redis.user_tasks[user_id], 0, limit - 1)

(***************************************************************************)
(* app/tasks/user_tasks.py and the notification routes: the other writers  *)
(* of the side store.  Every command is answered; a handler is one step.   *)
(***************************************************************************)
OnlyRedis ==
    UNCHANGED <<users, documents, query_logs, index, backend, pool, procs, meta,
                reports, polled, last_search, today, submitted, revoked, monitor,
                split, llm>>

\* send_notification, lines 343-351: the notification under a key made of the
\* user and the second it was sent in, the key pushed to the head of
\* user_notifications:{user_id}, the list trimmed to 100 and given a week.
Notified(store, user_id, now) ==
    LET key == RedisKey("notification", user_id, now)
        stored == setex([store EXCEPT !.read = @ \ {key}], key, 604800)
        pushed == lpush(stored, "user_notifications", user_id, key)
        trimmed == ltrim(pushed, "user_notifications", user_id, 0, history_limit - 1)
    IN  expire(trimmed, RedisKey("user_notifications", user_id, 0), 604800)

send_notification(user_id, now) ==
    /\ redis' = Notified(redis, user_id, now)
    /\ OnlyRedis

\* The second of the newest notification the store still holds, 0 when it
\* holds none: the next one is sent in that second or a later one.
LastSent ==
    SetMax({0} \cup {k[3] : k \in {k \in DOMAIN redis.ttl : k[1] = "notification"}})

\* generate_user_report, lines 111-180: the report of a user that exists is
\* cached for an hour under user_report:{user_id}:{days}.
generate_user_report(user_id, days) ==
    /\ redis' = IF user_id \in Users
                THEN setex(redis, RedisKey("user_report", user_id, days), 3600)
                ELSE redis
    /\ OnlyRedis

\* export_user_data, lines 241-302: the export is kept for a day under
\* user_export:{user_id}:{second}.
export_user_data(user_id, now) ==
    /\ redis' = IF user_id \in Users
                THEN setex(redis, RedisKey("user_export", user_id, now), 86400)
                ELSE redis
    /\ OnlyRedis

\* The "user_id" of the JSON value under a key, NoCaller when the value has
\* none or is a list: notifications, reports and task metadata have one.
OwnerOf(store, key) ==
    CASE key[1] \in {"notification", "user_report"} -> key[2]
      [] key[1] = "task_meta" -> store.task_meta[key[2]].user_id
      [] OTHER -> NoCaller

\* POST /user/notifications/{notification_key}/read, lines 538-545: the value
\* under the key, when there is one and its user_id is the caller's, is
\* written back with read set and a week to live.
mark_notification_read(user_id, key) ==
    /\ redis' = IF key \in DOMAIN redis.ttl /\ OwnerOf(redis, key) = user_id
                THEN setex([redis EXCEPT !.read = @ \cup {key}], key, 604800)
                ELSE redis
    /\ OnlyRedis

\* cleanup_expired_tasks, lines 39-45: every result key of the backend that
\* has no expiry is given an hour; the keys that are gone are only counted.
Cleaned(store) ==
    [store EXCEPT !.ttl =
        [k \in DOMAIN @ |->
            IF k[1] = "celery-task-meta" /\ @[k] = NoExpiry THEN 3600 ELSE @[k]]]

cleanup_expired_tasks ==
    /\ redis' = Cleaned(redis)
    /\ OnlyRedis

\* A result key that was stored without an expiry (by a deployment that had
\* no result_expires), the case cleanup_expired_tasks looks for.
LegacyResult == RedisKey("celery-task-meta", 0, 0)
LegacyRedis == [EmptyRedis EXCEPT !.ttl = (LegacyResult :> NoExpiry)]

\* Redis drops a key whose time to live has run out, with its value.
Expired(store, key) ==
    CASE key[1] \in {"user_tasks", "user_notifications"} ->
             del([store EXCEPT ![key[1]][key[2]] = <<>>], key)
      [] key[1] = "task_meta" ->
             del([store EXCEPT !.task_meta[key[2]] = NoMeta], key)
      [] OTHER -> del([store EXCEPT !.read = @ \ {key}], key)

key_expires(key) ==
    /\ TTL(redis, key) > 0
    /\ redis' = Expired(redis, key)
    /\ OnlyRedis

\* The ownership test of cancel_task, lines 138-144: the call is refused
\* when a caller is given, the metadata exists and names another user.
CancelRefused(task_id, user_id) ==
    /\ user_id # NoCaller
    /\ redis.task_meta[task_id] # NoMeta
    /\ redis.task_meta[task_id].user_id # user_id

\* Lines 134-151.  `fails`: the Redis read or the broadcast raises, which the
\* except clause turns into False.
cancel_task(task_id, user_id, fails) ==
    /\ IF fails \/ CancelRefused(task_id, user_id)
       THEN /\ revoked' = revoked
            /\ monitor' = [op |-> "cancel_task", task_id |-> task_id,
                           user_id |-> user_id, returned |-> "False", new_task |-> 0]
       ELSE /\ revoked' = revoked \cup {task_id}
            /\ monitor' = [op |-> "cancel_task", task_id |-> task_id,
                           user_id |-> user_id, returned |-> "True", new_task |-> 0]
    /\ UNCHANGED <<users, documents, query_logs, index, backend, pool, procs, meta,
                   reports, polled, last_search, today, submitted, redis, split, llm>>

\* revoke(task_id, terminate=True) at the worker: a queued job is dropped
\* when it is received, a running one gets SIGTERM.  The process ends where
\* it is; what its session has not committed is lost, and the result backend
\* records REVOKED.
worker_terminate(p) ==
    /\ p \in revoked
    /\ procs[p].kind \in {"ingest", "qa"}
    /\ procs[p].pc \notin {"free", "done"}
    /\ procs' = [procs EXCEPT ![p].pc = "done"]
    /\ meta' = [meta EXCEPT ![p] = [state |-> "REVOKED", progress |-> -1,
                                    result |-> Failure("revoked")]]
    /\ UNCHANGED <<users, documents, query_logs, index, backend, side, reports,
                   polled, last_search, today, submitted>>

\* The same while add_chunks is writing: the first n chunks are in the index.
worker_terminate_indexing(p, n) ==
    LET pr == procs[p] IN
    /\ p \in revoked
    /\ pr.kind = "ingest" /\ pr.pc = "index"
    /\ n \in 1..ChunkCount[pr.content]
    /\ index' = add_chunks(index, backend, pr.content, n, pr.doc, pr.user)
    /\ procs' = [procs EXCEPT ![p].pc = "done"]
    /\ meta' = [meta EXCEPT ![p] = [state |-> "REVOKED", progress |-> -1,
                                    result |-> Failure("revoked")]]
    /\ UNCHANGED <<users, documents, query_logs, backend, side, reports, polled,
                   last_search, today, submitted>>

\* time_limit of the task decorator: the pool kills the process of a job
\* that runs longer, wherever it is, also in the middle of add_chunks.
time_limit_exceeded(p, n) ==
    LET pr == procs[p] IN
    /\ pr.kind = "ingest" /\ pr.pc \notin {"free", "done", "queued", "raised"}
    /\ n \in 0..ChunkCount[pr.content]
    /\ n > 0 => pr.pc = "index"
    /\ index' = IF n > 0
                THEN add_chunks(index, backend, pr.content, n, pr.doc, pr.user)
                ELSE index
    /\ procs' = [procs EXCEPT ![p].pc = "done"]
    /\ meta' = [meta EXCEPT ![p] = [state |-> "FAILURE", progress |-> -1,
                                    result |-> Failure("TimeLimitExceeded")]]
    /\ UNCHANGED <<users, documents, query_logs, backend, side, reports, polled,
                   last_search, today, submitted>>

\* A slot no job has held.
Fresh(p) == NextFree(p) /\ procs[p].pc = "free"

\* A guard that does not look at the state of the original job.
Retryable_any_state(task_id, user_id) ==
    /\ redis.task_meta[task_id] # NoMeta
    /\ user_id = NoCaller \/ redis.task_meta[task_id].user_id = user_id

\* The guard of retry_task, lines 156-173: the metadata exists, names the
\* caller if one is given, and the result backend says FAILURE.
Retryable(task_id, user_id) ==
    /\ redis.task_meta[task_id] # NoMeta
    /\ user_id = NoCaller \/ redis.task_meta[task_id].user_id = user_id
    /\ meta[task_id].state = "FAILURE"

\* The job retry_task submits for a task type, lines 179-193.
RetriedJob(m) ==
    IF m.task_type = "document_processing"
    THEN NewProc("ingest", m.user_id, m.metadata, "queued")
    ELSE Question("qa", m.user_id, "queued")

\* Lines 153-207.  `decodes`: reading a FAILURE the task's handler wrote may
\* raise (see get_task_status), which the except clause turns into None.
\* The new job takes slot q.
retry_task(task_id, user_id, q, decodes) ==
    LET m == redis.task_meta[task_id]
        none == [op |-> "retry_task", task_id |-> task_id, user_id |-> user_id,
                 returned |-> "None", new_task |-> 0]
    IN
    /\ decodes \/ WrittenByTask(meta[task_id])
    /\ IF Retryable(task_id, user_id) /\ decodes
          /\ m.task_type \in {"document_processing", "question_answering"}
       THEN /\ Fresh(q)
            /\ Take(q, RetriedJob(m))
            /\ redis' = Tracked(redis, m.user_id, q, m.task_type, m.metadata)
            /\ monitor' = [none EXCEPT !.returned = "id", !.new_task = q]
       ELSE /\ q = task_id
            /\ monitor' = none
            /\ UNCHANGED <<procs, meta, reports, polled, submitted, redis>>
    /\ UNCHANGED <<users, documents, query_logs, index, backend, pool, last_search, today,
                   revoked, split, llm>>

(***************************************************************************)
(* The ingestion specification: uploads, ingestion and deletion jobs of    *)
(* the two users, interleaved, on the default backend.                     *)
(***************************************************************************)
InitIngest == InitWith("chromadb", {})

Submit ==
    \/ \E p \in Procs, u \in Users, up \in Uploads : upload_document_async(p, u, up)
    \/ \E p \in Procs, u \in Users, up \in Uploads : upload_document_sync(p, u, up)
    \/ \E p \in Procs, u \in Users, d \in DocumentIds :
          delete_document_async_route(p, u, d)
    \/ \E p \in Procs, u \in Users : bulk_delete_user_documents_delay(p, u)

IngestStep ==
    \/ \E p \in Procs : process_document_async_begin(p)
    \/ \E p \in Procs : process_document_async_check(p)
    \/ \E p \in Procs : process_document_async_persist(p)
    \/ \E p \in Procs, fails \in BOOLEAN : process_document_async_index(p, fails)
    \/ \E p \in Procs : process_document_async_finish(p)
    \/ \E p \in Procs : autoretry(p)

UploadStep ==
    \/ \E p \in Procs : upload_document_persist(p)
    \/ \E p \in Procs, fails \in BOOLEAN : upload_document_index(p, fails)
    \/ \E p \in Procs : upload_document_finish(p)

DeleteStep ==
    \/ \E p \in Procs, fails \in BOOLEAN : delete_document_async_begin(p, fails)
    \/ \E p \in Procs : delete_document_async_commit(p)
    \/ \E p \in Procs, fails \in BOOLEAN : bulk_delete_user_documents_begin(p, fails)
    \/ \E p \in Procs : bulk_delete_user_documents_commit(p)

Next == Submit \/ IngestStep \/ UploadStep \/ DeleteStep \/ Tick(ingest_countdown)

Spec == InitIngest /\ [][Next]_vars

(***************************************************************************)
(* The vector-store specification: any sequence of calls of the store's    *)
(* operations by the two users, on each backend.                           *)
(***************************************************************************)
TopKs == {1, 2}
VecContents == {"A", "B"}
VecDocuments == {1, 2}

NextVec ==
    \/ \E c \in VecContents, d \in VecDocuments, u \in Users : add_chunks_call(c, d, u)
    \/ \E d \in VecDocuments, u \in Users : delete_document_chunks_call(d, u)
    \/ \E u \in Users : delete_user_data_call(u)
    \/ \E u \in Users, top_k \in TopKs : search_similar_chunks_call(u, top_k)

SpecVec == Init /\ [][NextVec]_vars

(***************************************************************************)
(* The job specification: jobs of every type, one at a time, with their    *)
(* retries, the passing of time and status polls.                          *)
(***************************************************************************)
Idle == \A p \in Procs : Reusable(p)

SubmitJob ==
    \/ \E p \in Procs, u \in UserIds, up \in Uploads :
          Idle /\ process_document_async_delay(p, u, up)
    \/ \E p \in Procs, u \in Users, d \in DocumentIds :
          Idle /\ delete_document_async_route(p, u, d)
    \/ \E p \in Procs, u \in Users : Idle /\ bulk_delete_user_documents_delay(p, u)
    \/ \E p \in Procs, u \in Users : Idle /\ ask_priority_question(p, u)
    \/ \E p \in Procs, u \in UserIds : Idle /\ answer_question_async_delay(p, u)

QAStep ==
    \/ \E p \in Procs : answer_question_async_begin(p)
    \/ \E p \in Procs, fails \in BOOLEAN : answer_question_async_search(p, fails)
    \/ \E p \in Procs : answer_question_async_finish(p)

NextJobs ==
    \/ SubmitJob
    \/ IngestStep
    \/ QAStep
    \/ DeleteStep
    \/ Tick(qa_countdown)
    \/ \E p \in Procs, decodes \in BOOLEAN : get_task_status(p, decodes)

SpecJobs == InitUploaded /\ [][NextJobs]_vars

(***************************************************************************)
(* The question specification: questions of the two users on every path,   *)
(* interleaved, over two days, with the scheduled statistics update.       *)
(***************************************************************************)
Ask ==
    \/ \E p \in Procs, u \in Users, fails \in BOOLEAN : ask_question(p, u, fails)
    \/ \E p \in Procs, u \in Users : ask_question_async(p, u)
    \/ \E p \in Procs, u \in Users : ask_priority_question(p, u)
    \/ \E p \in Procs, u \in Users : ask_question_stream(p, u)

StreamStep ==
    \/ \E p \in Procs, fails \in BOOLEAN : generate_response_search(p, fails)
    \/ \E p \in Procs, fails \in BOOLEAN : generate_response_chunk(p, fails)
    \/ \E p \in Procs, fails \in BOOLEAN : generate_response_finish(p, fails)

NextQA ==
    \/ Ask
    \/ QAStep
    \/ StreamStep
    \/ \E p \in Procs : autoretry(p)
    \/ Tick(qa_countdown)
    \/ update_user_stats
    \/ NewDay

SpecQA == InitUploaded /\ [][NextQA]_vars

(***************************************************************************)
(* Properties of the vector store (specification SpecVec).                 *)
(***************************************************************************)
\* C1: on every backend and after any sequence of add_chunks,
\* delete_document_chunks and delete_user_data calls, every chunk that
\* search_similar_chunks returns to user A is stored under user_id A; the
\* filter is part of the query, so the search returns top_k chunks whenever
\* the index holds that many of the user's.
C1_Isolation ==
    /\ \A e \in last_search.hits : e.user_id = last_search.user_id
    /\ Cardinality(last_search.hits) = Min2(last_search.top_k, last_search.stored)

\* A search of the first user returned chunks while the index held chunks of
\* the second user too.
C1_Witness ==
    /\ last_search.user_id = 1
    /\ last_search.hits # {} /\ last_search.hits \subseteq index
    /\ \E e \in index : e.user_id = 2

(***************************************************************************)
(* Properties of ingestion (specification Spec).                           *)
(***************************************************************************)
\* C2: in every reachable state the documents table holds at most one row per
\* (user_id, content_hash), also when ingestion jobs and uploads of the same
\* content of one user interleave between the pre-check and the insert.
C2_UniqueContent ==
    \A d1, d2 \in documents :
        (d1.user_id = d2.user_id /\ d1.content_hash = d2.content_hash) => d1 = d2

\* Two processes passed the pre-check for the same content of one user; one
\* inserted the row and the insert of the other was refused.
C2_Witness ==
    \E p, q \in Procs :
        /\ procs[p].error = "IntegrityError"
        /\ procs[q].user = procs[p].user /\ procs[q].content = procs[p].content
        /\ procs[q].doc \in {d.id : d \in documents}

\* The step of process p in which the ingestion job runs its duplicate
\* pre-check on text it could extract.
PreCheckStep(p) ==
    /\ procs[p].kind = "ingest" /\ procs[p].pc = "extract"
    /\ procs'[p].pc # "extract"
    /\ Suffix(procs[p].filename) = ".txt"

StoredCopies(p) ==
    {d \in documents : d.user_id = procs[p].user
                        /\ d.content_hash = <<"sha256", procs[p].content>>}

C4_ProgressOfSuccess ==
    \A p \in Procs :
        (procs[p].kind = "ingest" /\ procs[p].pc = "done"
            /\ meta[p].result.status = "success")
        => /\ reports[p] = <<<<"PROCESSING", 0>>, <<"PROCESSING", 25>>,
                             <<"PROCESSING", 50>>, <<"PROCESSING", 75>>,
                             <<"SUCCESS", 100>>>>
           /\ meta[p].state = "SUCCESS"
           /\ meta[p].result.chunk_count =
                 Len(split_text_into_chunks(extract_text_from_txt(procs[p].content),
                                            default_chunk_size, default_overlap))

\* An ingestion job of the three-chunk document succeeded.
C4_Witness ==
    \E p \in Procs :
        /\ procs[p].kind = "ingest" /\ procs[p].pc = "done"
        /\ meta[p].result.status = "success"
        /\ meta[p].result.chunk_count = 3

(***************************************************************************)
(* Properties of jobs (specification SpecJobs).                            *)
(***************************************************************************)
Terminal == {"SUCCESS", "FAILURE"}

\* C5 (as stated): FAILURE is written only once the retries of the job are
\* used up, and SUCCESS and FAILURE are terminal: after a status poll of a job
\* has returned one of them, no later poll of that job returns another state.
C5_AsStated ==
    [][\A p \in Procs :
         /\ (meta'[p].state = "FAILURE" /\ meta[p].state # "FAILURE")
               => procs'[p].retries >= MaxRetries(procs'[p].kind)
         /\ (polled[p] \in Terminal /\ polled'[p] # "")
               => polled'[p] = polled[p]
       ]_vars

\* C6: an ingestion job is executed at most 4 times and a question job at most
\* 3 times; a retried execution starts no sooner than 60 s (ingestion) or 30 s
\* (question) after the failure; deletion and bulk-deletion jobs are executed
\* at most once.
C6_ExecutionsBounded ==
    \A p \in Procs :
        /\ procs[p].kind = "ingest" => procs[p].runs <= 4
        /\ procs[p].kind = "qa" => procs[p].runs <= 3
        /\ procs[p].kind \in {"delete", "bulk"} => procs[p].runs <= 1
        /\ (procs[p].retries > 0 /\ procs[p].pc # "queued") =>
              /\ procs[p].kind = "ingest" => procs[p].wait >= 60
              /\ procs[p].kind = "qa" => procs[p].wait >= 30
        /\ procs[p].runs <= procs[p].retries + 1

\* An ingestion job failed for good after its fourth execution.
C6_Witness ==
    \E p \in Procs :
        /\ procs[p].kind = "ingest" /\ procs[p].pc = "done"
        /\ procs[p].runs = 4 /\ meta[p].state = "FAILURE"

ValidationErrors ==
    {"User not found", "Maximum document limit reached", "Unsupported file type",
     "Document too large", "Rate limit exceeded"}

\* C7 (as stated): a job that raised a validation or rate-limit error is not
\* retried: it is executed once and fails with that error.
C7_AsStated ==
    \A p \in Procs :
        /\ (procs[p].pc = "queued" /\ procs[p].retries > 0)
              => meta[p].result.error \notin ValidationErrors
        /\ (procs[p].pc = "done" /\ meta[p].state = "FAILURE"
               /\ meta[p].result.error \in ValidationErrors)
              => procs[p].runs = 1

\* C8 (as stated): the progress values a job reports are within 0..100 and
\* strictly increasing, the report of the failure path included.
C8_AsStated ==
    \A p \in Procs :
        /\ \A i \in DOMAIN reports[p] : reports[p][i][2] \in 0..100
        /\ \A i, j \in DOMAIN reports[p] :
              i < j => reports[p][i][2] < reports[p][j][2]

(***************************************************************************)
(* Properties of questions (specification SpecQA).                         *)
(***************************************************************************)
\* The user's stored count has reached the maximum and was last raised today.
AtLimit(u) ==
    /\ users[u].query_count_today >= max_queries_per_hour
    /\ users[u].last_query_date = today

\* Process p takes up a question of user u in this step: a request arrives
\* (on the synchronous, asynchronous or streaming route), or an execution of
\* the question job of the user starts.
QuestionStarts(p, u) ==
    \/ /\ procs'[p] # procs[p]
       /\ procs[p].pc \in {"free", "done"}
       /\ procs'[p].kind \in {"ask", "stream"} /\ procs'[p].user = u
    \/ /\ procs[p].kind = "qa" /\ procs[p].user = u
       /\ procs[p].pc = "queued" /\ procs'[p].pc # "queued"

\* C9: a question of a user who is at the limit today is refused where it is
\* checked, on every path: the request is answered 429 or the execution of
\* the job raises "Rate limit exceeded"; the step writes no QueryLog, leaves
\* the users table as it is and starts no answer.
C9_RefusedAtLimit ==
    [][\A p \in Procs, u \in Users :
         (QuestionStarts(p, u) /\ AtLimit(u)) =>
            /\ \/ procs'[p].http = 429 /\ procs'[p].pc = "done"
               \/ procs'[p].pc = "raised" /\ procs'[p].error = "Rate limit exceeded"
            /\ query_logs' = query_logs
            /\ users' = users
       ]_vars

\* A user who had asked the day's one question asked again on the priority
\* route, and the execution of the job refused.
C9_Witness ==
    \E q \in Procs :
        /\ procs[q].kind = "qa" /\ procs[q].pc = "raised"
        /\ procs[q].error = "Rate limit exceeded"
        /\ AtLimit(procs[q].user)
        /\ Len(query_logs) = max_queries_per_hour

\* C10 (as stated): the step that commits the first answered question of a
\* user on a new day (the stored date is an earlier day), in the job or in the
\* streaming route, leaves the count 1 and the date today.
C10_AsStated ==
    [][\A p \in Procs :
         LET u == procs[p].user IN
         (/\ procs[p].kind \in {"qa", "stream"}
          /\ procs[p].pc = "generate" /\ procs'[p].pc = "done"
          /\ users[u].last_query_date # NoDate
          /\ users[u].last_query_date < today)
         => /\ users'[u].query_count_today = 1
            /\ users'[u].last_query_date = today
       ]_vars

(***************************************************************************)
(* The answer strategies: generate_answer called on every strategy with    *)
(* every question, context and backend behaviour of the sets above, next   *)
(* to questions asked through POST /qa/ask by a user with an indexed       *)
(* document and by one without.                                            *)
(***************************************************************************)
\* One call a run: generate_answer keeps nothing from one call to the next.
AnswerCall ==
    /\ llm = NoLLMCall
    /\ \E strategy \in Strategies, question \in Questions, context \in Contexts,
          outcome \in Outcomes, text \in ResponseTexts :
           /\ outcome # "ok" => text = <<>>
           /\ generate_answer_call(strategy, question, context, outcome, text)

AskSync == \E p \in Procs, u \in Users, fails \in BOOLEAN : ask_question(p, u, fails)

NextLLM == AnswerCall \/ AskSync
SpecLLM == InitUploaded /\ [][NextLLM]_vars

\* C11: whatever strategy is called with whatever question and context, and
\* whatever its backend does, generate_answer returns a non-empty string; and
\* when the backend fails (time-out, connection error, non-success status,
\* malformed body) the string is the answer of the SimpleLLM.
C11_AsStated ==
    llm.strategy # "none" =>
        /\ llm.answer # <<>>
        /\ (llm.called /\ llm.outcome \in FailureOutcomes) =>
               llm.answer = SimpleLLM_generate_answer(llm.question, llm.context)

\* C12: with an empty context every strategy returns the fixed "I don't have
\* enough information ..." message without calling its backend, whatever the
\* backend would do; and a question asked through POST /qa/ask by a user who
\* has no index entry (the rate limit and the vector store permitting) is
\* answered with HTTP 200 and logged with that message.
NoEntries(u) == \A e \in index : e.user_id # u
EventRank(e) ==
    CASE e.type = "status" -> 0
      [] e.type = "chunk" -> 1
      [] OTHER -> 2
Terminals(events) == {i \in DOMAIN events : EventRank(events[i]) = 2}
RECURSIVE ChunksSent(_)
ChunksSent(events) ==
    IF events = <<>> THEN <<>>
    ELSE (IF Head(events).type = "chunk" THEN Head(events).content ELSE <<>>)
         \o ChunksSent(Tail(events))
Streaming(p) == procs[p].kind = "stream" /\ procs[p].http = 200
EventOrder(p) ==
    LET events == procs[p].events IN
    /\ events # <<>> => events[1].type = "status"
    /\ \A i, j \in DOMAIN events : i < j => EventRank(events[i]) <= EventRank(events[j])
    /\ Cardinality(Terminals(events)) <= 1
    /\ Terminals(events) \subseteq {Len(events)}
    /\ procs[p].pc = "done" <=> Terminals(events) # {}
Completes(p) ==
    /\ procs'[p].events # procs[p].events
    /\ procs'[p].events[Len(procs'[p].events)].type = "complete"
C13_StreamProtocol ==
    /\ [](\A p \in Procs : Streaming(p) => EventOrder(p))
    /\ [][\A p \in Procs :
            (Streaming(p) /\ procs[p].pc # "done" /\ procs'[p] # procs[p]) =>
                IF Completes(p)
                THEN query_logs' =
                        Append(query_logs,
                               QueryLog(procs[p].user, ChunksSent(procs'[p].events),
                                        procs[p].chunks_used, today))
                ELSE query_logs' = query_logs]_vars
C13_Witness ==
    \E p \in Procs :
        /\ Streaming(p) /\ procs[p].pc = "done"
        /\ Len(procs[p].events) >= 5
        /\ procs[p].events[Len(procs[p].events)].type = "complete"
        /\ query_logs # <<>>
        /\ query_logs[Len(query_logs)].answer = ChunksSent(procs[p].events)
        /\ Len(ChunksSent(procs[p].events)) >= 2

(***************************************************************************)
(* The task monitor: jobs submitted directly, tracked in the side store by *)
(* their submitter or by anyone else, cancelled and retried by any caller, *)
(* while the workers run them.                                             *)
(***************************************************************************)
Submitted(t) == procs[t].pc # "free"
JobUsers == {1, NoUser}
MonitorCallers == Users \cup {NoCaller}

\* One job is submitted directly; the other slot is for the job of a retry.
NoJobYet == \A q \in Procs : procs[q].pc = "free"
MonitorSubmit ==
    \/ \E p \in Procs, u \in JobUsers, up \in TrackedUploads :
          NoJobYet /\ process_document_async_delay(p, u, up)
    \/ \E p \in Procs, u \in JobUsers :
          NoJobYet /\ answer_question_async_delay(p, u)

\* One cancel_task or retry_task call a run: the calls keep nothing from one
\* to the next but what is in the side store and the revoked set.
MonitorCall ==
    \/ \E u \in Users, t \in Procs, type \in TaskTypes :
          \E metadata \in MetadataOf(type) :
             Submitted(t) /\ HistoryLength < MaxHistory
                /\ track_user_task(u, t, type, metadata)
    \/ \E t \in Procs : expire_task_meta(t)
    \/ \E t \in Procs, caller \in MonitorCallers, fails \in BOOLEAN :
          Submitted(t) /\ monitor = NoMonitorCall /\ cancel_task(t, caller, fails)
    \/ \E t \in Procs, caller \in MonitorCallers, q \in Procs, decodes \in BOOLEAN :
          Submitted(t) /\ monitor = NoMonitorCall /\ retry_task(t, caller, q, decodes)

NextMonitor ==
    \/ MonitorSubmit
    \/ MonitorCall
    \/ IngestStep
    \/ QAStep
    \/ \E p \in Procs : worker_terminate(p)
    \/ Tick(ingest_countdown)

SpecMonitor == InitIngest /\ [][NextMonitor]_vars

\* C14: a cancel_task call by a user for a job whose recorded owner is
\* another user, or that has no metadata in the side store, revokes nothing
\* and returns False.
OwnerKnown(t, u) ==
    redis.task_meta[t] # NoMeta /\ redis.task_meta[t].user_id = u
C14_AsStated ==
    [][\A t \in Procs, caller \in Users, fails \in BOOLEAN :
          (cancel_task(t, caller, fails) /\ ~OwnerKnown(t, caller)) =>
              /\ revoked' = revoked
              /\ monitor'.returned = "False"]_vars

\* C15: a retry_task call by a user submits a job only if the original job is
\* in state FAILURE, has metadata and is recorded as the caller's; the new
\* job then has the recorded task type, owner and parameters, its id is put
\* at the head of the owner's history and its metadata is stored; a call that
\* submits no job leaves the side store, the jobs and the result backend as
\* they were and returns None.
JobOfType(pr, task_type) ==
    (task_type = "document_processing" /\ pr.kind = "ingest")
        \/ (task_type = "question_answering" /\ pr.kind = "qa")
C15_RetryGuarded ==
    [][\A t \in Procs, caller \in Users, q \in Procs, decodes \in BOOLEAN :
          retry_task(t, caller, q, decodes) =>
              LET m == redis.task_meta[t] IN
              IF submitted' # submitted
              THEN /\ meta[t].state = "FAILURE"
                   /\ OwnerKnown(t, caller)
                   /\ q # t /\ ~Submitted(q)
                   /\ JobOfType(procs'[q], m.task_type)
                   /\ procs'[q].user = caller /\ procs'[q].pc = "queued"
                   /\ m.task_type = "document_processing" =>
                          Upload(procs'[q]) = m.metadata
                   /\ redis'.user_tasks =
                          [redis.user_tasks EXCEPT ![caller] = <<q>> \o @]
                   /\ redis'.task_meta = [redis.task_meta EXCEPT ![q] = m]
                   /\ monitor'.returned = "id" /\ monitor'.new_task = q
              ELSE /\ redis' = redis /\ procs' = procs /\ meta' = meta
                   /\ monitor'.returned = "None"]_vars
C15_Witness ==
    /\ monitor.op = "retry_task" /\ monitor.returned = "id"
    /\ monitor.user_id \in Users
    /\ procs[monitor.new_task].kind = "ingest"
    /\ procs[monitor.new_task].user = monitor.user_id
    /\ redis.user_tasks[monitor.user_id] = <<monitor.new_task, monitor.task_id>>
    /\ redis.task_meta[monitor.new_task] = redis.task_meta[monitor.task_id]
    /\ meta[monitor.task_id].state = "FAILURE"

(***************************************************************************)
(* Ingestion jobs that are cancelled or run out of time: uploads through   *)
(* the route and jobs submitted directly, a cancel_task call, and the      *)
(* worker ending a revoked or overdue job wherever it is.                  *)
(***************************************************************************)
RevokeUploads == {up \in Uploads : up.filename \in {"a.txt", "b.txt"}}

RevokeSubmit ==
    \/ \E p \in Procs, u \in Users, up \in RevokeUploads :
          procs[p].pc = "free" /\ upload_document_async(p, u, up)
    \/ \E p \in Procs, u \in UserIds, up \in RevokeUploads :
          procs[p].pc = "free" /\ process_document_async_delay(p, u, up)

Kill ==
    \/ \E t \in Procs, caller \in Users, fails \in BOOLEAN :
          Submitted(t) /\ monitor = NoMonitorCall /\ cancel_task(t, caller, fails)
    \/ \E p \in Procs : worker_terminate(p)
    \/ \E p \in Procs, n \in 1..max_chunks_per_document :
          worker_terminate_indexing(p, n)
    \/ \E p \in Procs, n \in 0..max_chunks_per_document : time_limit_exceeded(p, n)

NextRevoke == RevokeSubmit \/ IngestStep \/ Kill \/ Tick(ingest_countdown)
SpecRevoke == InitIngest /\ [][NextRevoke]_vars

\* C16: whatever ingestion jobs are revoked or killed, and wherever in their
\* execution, every entry of the vector index belongs to a (user, document)
\* pair that has a Document record.
HasDocument(e) ==
    \E d \in documents : d.id = e.document_id /\ d.user_id = e.user_id
C16_RecordBeforeIndex == \A e \in index : HasDocument(e)
C16_Witness ==
    \E p \in Procs :
        /\ procs[p].kind = "ingest" /\ procs[p].pc = "done"
        /\ meta[p].state = "REVOKED"
        /\ LET written == {e \in index : e.document_id = procs[p].doc
                                         /\ e.user_id = procs[p].user}
           IN  /\ written # {}
               /\ Cardinality(written) < ChunkCount[procs[p].content]
        /\ FindDocument(procs[p].doc, procs[p].user) # {}

\* C17: on every backend and in every state of the index, add_chunks called
\* twice with the same chunks, document id and user id gives what one call
\* gives, and that holds exactly one entry for each key
\* user_{u}_doc_{d}_chunk_{i} of the call; the index never holds two entries
\* of one key.
Key(e) == <<e.user_id, e.document_id, e.chunk_index>>
OnePerKey(idx) == \A e1, e2 \in idx : Key(e1) = Key(e2) => e1 = e2
C18_DeleteFrame ==
    [][/\ \A d \in VecDocuments, u \in Users :
             delete_document_chunks_call(d, u) =>
                 /\ index' \subseteq index
                 /\ \A e \in index :
                       e \notin index' <=> (e.document_id = d /\ e.user_id = u)
       /\ \A u \in Users :
             delete_user_data_call(u) =>
                 /\ index' \subseteq index
                 /\ \A e \in index : e \notin index' <=> e.user_id = u]_vars
\* A search found entries of user 1 that are gone now, while another document
\* of user 1 and the same document id of user 2 are still indexed.
C18_Witness ==
    /\ last_search.user_id = 1
    /\ last_search.stored > Cardinality(UserFilter(index, 1))
    /\ \A e \in index : ~(e.user_id = 1 /\ e.document_id = 1)
    /\ \E e \in index : e.user_id = 1 /\ e.document_id = 2
    /\ \E e \in index : e.user_id = 2 /\ e.document_id = 1

(***************************************************************************)
(* The splitter: split_text_into_chunks called with every text of Texts,   *)
(* every chunk_size of 1..MaxChunkSize and every overlap of 0..MaxOverlap. *)
(***************************************************************************)
InitChunk ==
    \E text \in Texts, chunk_size \in 1..MaxChunkSize, overlap \in 0..MaxOverlap :
        /\ InitService("chromadb", {})
        /\ redis = EmptyRedis /\ revoked = {} /\ monitor = NoMonitorCall
        /\ llm = NoLLMCall /\ pool = 1
        /\ split = SplitCall(text, chunk_size, overlap)

NextChunk == split_text_into_chunks_enter \/ split_text_into_chunks_iterate
SpecChunk == InitChunk /\ [][NextChunk]_vars

\* C19: whatever the text, chunk_size > 0 and overlap >= 0, every iteration
\* of the loop of split_text_into_chunks leaves the window start higher than
\* it found it (so that the loop ends).
C19_AsStated ==
    [][split_text_into_chunks_iterate => split'.start > split.start]_vars

\* C20: for a text longer than chunk_size, the first window that
\* split_text_into_chunks cuts starts at 0 and every next window starts at or
\* before the end of the one before; and when the function returns, the last
\* window ends at or past the end of the text, the chunks are the stripped
\* windows that are not empty, and every character of the text that is not
\* whitespace lies in a window, hence in a chunk.
WindowText(w) == strip(Slice(split.text, w[1], w[2]))
RECURSIVE NonEmptyChunks(_)
NonEmptyChunks(windows) ==
    IF windows = <<>> THEN <<>>
    ELSE (IF WindowText(Head(windows)) # <<>> THEN <<WindowText(Head(windows))>>
          ELSE <<>>) \o NonEmptyChunks(Tail(windows))
InWindow(k, w) ==
    /\ SliceIndex(w[1], Len(split.text)) < k
    /\ k <= SliceIndex(w[2], Len(split.text))
C21_AsStated ==
    (split.pc = "done" /\ Len(split.text) <= split.chunk_size) =>
        split.chunks = <<strip(split.text)>>

\* C22 (as stated): every chunk that split_text_into_chunks returns is
\* non-empty after trimming, whatever the text, the empty text and a text of
\* whitespace only included.
C22_AsStated ==
    split.pc = "done" =>
        \A i \in DOMAIN split.chunks : strip(split.chunks[i]) # <<>>

(***************************************************************************)
(* Limits of the documents table (specification Spec).                     *)
(***************************************************************************)
\* C27 (as stated): whatever synchronous uploads, ingestion jobs (failed,
\* retried and concurrent ones included) and deletions of a user interleave,
\* the user never has more than max_documents_per_user Document records.
C27_AsStated ==
    \A u \in Users : Cardinality(UserDocuments(u)) <= max_documents_per_user

\* C28 (as stated): every Document record, whether written by the ingestion
\* job or by the synchronous upload, has chunk_count <= max_chunks_per_document.
C28_AsStated ==
    \A d \in documents : d.chunk_count <= max_chunks_per_document

(***************************************************************************)
(* Deletion: DELETE /qa/documents/{id} on both branches and deletion jobs  *)
(* submitted directly, for documents that exist, do not exist or are       *)
(* another user's, next to synchronous uploads.                            *)
(***************************************************************************)
DeleteRequest ==
    \/ \E p \in Procs, u \in Users, d \in DocumentIds : delete_document_not_found(p, u, d)
    \/ \E p \in Procs, u \in Users, d \in DocumentIds : delete_document_async_route(p, u, d)
    \/ \E p \in Procs, u \in Users, d \in DocumentIds, fails \in BOOLEAN :
          delete_document_sync(p, u, d, fails)
    \/ \E p \in Procs, u \in UserIds, d \in DocumentIds :
          delete_document_async_delay(p, d, u)

NextDelete ==
    \/ DeleteRequest
    \/ \E p \in Procs, autoflush \in BOOLEAN : delete_document_sync_commit(p, autoflush)
    \/ \E p \in Procs, fails \in BOOLEAN : delete_document_async_begin(p, fails)
    \/ \E p \in Procs : delete_document_async_commit(p)
    \/ \E p \in Procs, u \in Users, up \in Uploads : upload_document_sync(p, u, up)
    \/ UploadStep

SpecDelete == InitUploaded /\ [][NextDelete]_vars

\* C25: deleting a document that does not exist, or that is another user's,
\* is a not-found outcome and no failure.  The route answers 404 on both
\* branches and neither submits a job nor deletes; a deletion job that finds
\* no such document ends in its first execution with state SUCCESS and the
\* result "Document not found", without a retry; in both cases no Document
\* record, index entry or document count of any user changes.
NotOwned(d, u) == ~\E x \in documents : x.id = d /\ x.user_id = u
StoresUnchanged == documents' = documents /\ index' = index /\ users' = users
C25_NotFound ==
    [][/\ \A p \in Procs, u \in Users, d \in DocumentIds :
             NotOwned(d, u) =>
                /\ ~delete_document_async_route(p, u, d)
                /\ \A fails \in BOOLEAN : ~delete_document_sync(p, u, d, fails)
                /\ delete_document_not_found(p, u, d) =>
                      /\ procs'[p].http = 404 /\ procs'[p].pc = "done"
                      /\ StoresUnchanged
       /\ \A p \in Procs :
             (/\ procs[p].kind = "delete" /\ procs[p].pc = "queued"
              /\ procs'[p] # procs[p]
              /\ NotOwned(procs[p].doc, procs[p].user)) =>
                /\ procs'[p].pc = "done" /\ procs'[p].runs = 1
                /\ procs'[p].retries = 0
                /\ meta'[p].state = "SUCCESS"
                /\ meta'[p].result.error = "Document not found"
                /\ StoresUnchanged]_vars

\* The second user asked for the deletion of the first user's document: the
\* request was answered 404, a job submitted for the same pair ended with
\* "Document not found", and the document is stored and indexed as before.
C25_Witness ==
    /\ \E p \in Procs :
          /\ procs[p].kind = "delete_route" /\ procs[p].http = 404
          /\ procs[p].user = 2 /\ procs[p].doc = 1
    /\ \E q \in Procs :
          /\ procs[q].kind = "delete" /\ procs[q].pc = "done"
          /\ procs[q].user = 2 /\ procs[q].doc = 1
          /\ meta[q].state = "SUCCESS"
          /\ meta[q].result.error = "Document not found"
    /\ UploadedDocument \in documents
    /\ \E e \in index : e.document_id = 1 /\ e.user_id = 1
    /\ users[1].document_count = 1

\* C26 (as stated): the step in which a deletion job commits and returns
\* success leaves the user's document_count equal to the number of Document
\* records the user has after it.
C26_AsStated ==
    [][\A p \in Procs :
          (/\ procs[p].kind = "delete" /\ procs[p].pc = "commit"
           /\ procs'[p].pc = "done"
           /\ meta'[p].result.status = "success") =>
              users'[procs[p].user].document_count =
                 Cardinality({d \in documents' : d.user_id = procs[p].user})]_vars

(***************************************************************************)
(* The request boundary: POST /qa/upload with every file of RouteUploads   *)
(* on both branches and POST /qa/ask with every text of AskedQuestions, by *)
(* a user who has reached the document limit and by one who has not, with  *)
(* the steps of the uploads they start; a queued job stays queued.         *)
(***************************************************************************)
AskedQuestions ==
    {<<>>, <<" ", " ", " ">>, <<"\t", "\n">>, <<" ", "w", "h", "y", "?">>}

Request ==
    \/ \E p \in Procs, u \in Users, up \in RouteUploads, use_async \in BOOLEAN :
          upload_document(p, u, up, use_async)
    \/ \E p \in Procs, u \in Users, question \in AskedQuestions,
          use_async \in BOOLEAN, fails \in BOOLEAN :
          ask_question_text(p, u, question, use_async, fails)

NextRoutes == Request \/ UploadStep
SpecRoutes == InitUploaded /\ [][NextRoutes]_vars

\* C23 (as stated): a synchronous upload that passes the checks on type, size
\* and document limit, with content the same user already has a Document for
\* (under whatever filename), is answered HTTP 400 and leaves the Document
\* records, the vector index and the document counts as they were.
C23_AsStated ==
    [][\A p \in Procs, u \in Users, up \in RouteUploads :
          (/\ upload_document(p, u, up, FALSE)
           /\ UploadAccepted(u, up)
           /\ \E d \in documents :
                 d.user_id = u /\ d.content_hash = calculate_hash(up.content)) =>
              /\ procs'[p].http = 400
              /\ StoresUnchanged]_vars

\* C24: a request that boundary validation rejects (a file type that is not
\* allowed, a file of more than max_file_size bytes, a user whose document
\* count has reached the limit; a question that is empty or whitespace only)
\* is answered HTTP 400 at once: its process has ended, no job is queued, no
\* other process changes, and the Document records, the vector index, the
\* user rows, the query log, the result backend and the side store are as
\* they were.
Invalid(u, up) ==
    \/ Suffix(up.filename) \notin {".txt", ".pdf"}
    \/ FileSize(up.content) > max_file_size
    \/ users[u].document_count >= max_documents_per_user
Blank(question) == \A i \in DOMAIN question : question[i] \in Whitespace
NothingProcessed(p) ==
    /\ procs'[p].http = 400 /\ procs'[p].pc = "done"
    /\ \A q \in Procs \ {p} : procs'[q] = procs[q]
    /\ \A q \in Procs : meta'[q].state \in {meta[q].state, "PENDING"}
    /\ StoresUnchanged
    /\ query_logs' = query_logs
    /\ redis' = redis
C24_RefusedAtBoundary ==
    [][/\ \A p \in Procs, u \in Users, up \in RouteUploads, use_async \in BOOLEAN :
             (Invalid(u, up) /\ upload_document(p, u, up, use_async)) =>
                 NothingProcessed(p)
       /\ \A p \in Procs, u \in Users, question \in AskedQuestions,
             use_async \in BOOLEAN, fails \in BOOLEAN :
             (Blank(question) /\ ask_question_text(p, u, question, use_async, fails)) =>
                 NothingProcessed(p)]_vars

\* The user at the document limit was refused an upload of a new text file
\* while a whitespace-only question could not have been logged: the request
\* ended with HTTP 400 and the detail of the limit check, and the user has
\* exactly the documents the limit allows.
C24_Witness ==
    /\ \E p \in Procs :
          /\ procs[p].kind = "upload" /\ procs[p].pc = "done"
          /\ procs[p].http = 400
          /\ procs[p].user = 1 /\ procs[p].filename = "b.txt"
          /\ procs[p].error = "Maximum document limit reached"
    /\ users[1].document_count = max_documents_per_user
    /\ Cardinality(UserDocuments(1)) = max_documents_per_user
    /\ query_logs = <<>>
    /\ redis = EmptyRedis

(***************************************************************************)
(* The side store: every handler and task of the repository that writes    *)
(* to Redis, called in any order by both users, and Redis dropping the     *)
(* keys whose time has run out.                                            *)
(***************************************************************************)
ReportDays == {30}
ListKeys == {"user_tasks", "user_notifications"}

\* The store has room for another key; the calls below are those of user 1,
\* and anyone asks for a key to be marked as read, once a run.
Room == Cardinality(DOMAIN redis.ttl) < MaxKeys
StoreUsers == {1}
StoreCall ==
    \/ \E p \in Procs, u \in StoreUsers, up \in TrackedUploads :
          Room /\ upload_document_async(p, u, up)
    \/ \E u \in StoreUsers, t \in Procs, up \in TrackedUploads :
          /\ Submitted(t) /\ Len(redis.user_tasks[u]) < MaxHistory /\ Room
          /\ track_user_task(u, t, "document_processing", up)
    \/ \E u \in StoreUsers, now \in 1..MaxSecond :
          /\ now \in {LastSent, LastSent + 1}
          /\ Len(redis.user_notifications[u]) < MaxHistory /\ Room
          /\ send_notification(u, now)
    \/ \E u \in StoreUsers, days \in ReportDays : Room /\ generate_user_report(u, days)
    \/ \E u \in StoreUsers : Room /\ export_user_data(u, MaxSecond)
    \/ \E u \in Users, key \in DOMAIN redis.ttl :
          redis.read = {} /\ mark_notification_read(u, key)

NextStore == StoreCall \/ \E key \in DOMAIN redis.ttl : key_expires(key)
SpecStore == InitIngest /\ [][NextStore]_vars

\* C30: whenever no writing operation is under way, every key of the side
\* store (task metadata, the per-user task lists, notifications and the
\* per-user notification lists, upload-task info, cached reports, exports)
\* has a time to live, and every list or metadata value the store holds is
\* under such a key.
C30_EveryKeyExpires ==
    /\ \A key \in DOMAIN redis.ttl : TTL(redis, key) > 0
    /\ \A name \in ListKeys, u \in Users :
          redis[name][u] # <<>> => TTL(redis, RedisKey(name, u, 0)) > 0
    /\ \A t \in Procs :
          redis.task_meta[t] # NoMeta => TTL(redis, RedisKey("task_meta", t, 0)) > 0

\* All seven kinds of key are in the store at once, a notification has been
\* marked as read, and a list holds more than one entry.
C30_Witness ==
    /\ \A prefix \in {"task_meta", "user_tasks", "notification", "user_notifications",
                      "upload_task", "user_report", "user_export"} :
          \E key \in DOMAIN redis.ttl : key[1] = prefix
    /\ \E key \in redis.read : key[1] = "notification"
    /\ \E u \in Users : Len(redis.user_notifications[u]) > 1

(***************************************************************************)
(* The per-user lists: track_user_task and send_notification called often  *)
(* enough for a list to outgrow history_limit.  Task ids are given out in  *)
(* order, a second holds several notifications only while the list is      *)
(* short, the second user calls only at the start, and one of the two      *)
(* kinds of list grows long in a run.                                      *)
(***************************************************************************)
TaskIds == 1..MaxPushes
InitHistory ==
    /\ InitService("chromadb", {})
    /\ redis = [EmptyRedis EXCEPT !.task_meta = [t \in TaskIds |-> NoMeta]]
    /\ revoked = {}
    /\ monitor = NoMonitorCall
    /\ split = NoSplit
    /\ llm = NoLLMCall /\ pool = 1

Short(n) == n <= MaxHistory
NextTask == 1 + Cardinality({t \in TaskIds : redis.task_meta[t] # NoMeta})

HistoryTrack ==
    \E u \in Users, t \in {NextTask}, last \in {LastSent} :
        /\ t <= MaxPushes
        /\ u = 1 \/ Short(t)
        /\ Short(t) \/ Short(last)
        /\ track_user_task(u, t, "question_answering", NoUpload)

HistoryNotify ==
    \E u \in Users, last \in {LastSent}, sent \in {NextTask - 1} :
        \E now \in {last, last + 1} \cap (1..MaxPushes) :
            /\ now = last => Len(redis.user_notifications[u]) < MaxHistory
            /\ u = 1 \/ Short(now)
            /\ Short(now) \/ Short(sent)
            /\ send_notification(u, now)

NextHistory == HistoryTrack \/ HistoryNotify
SpecHistory == InitHistory /\ [][NextHistory]_vars

\* The limits get_user_tasks is called with.
Limits == {0, 1, 2, 50, 100, 101}

\* The first n entries of a list, all of them when it has fewer.
FirstOf(list, n) == SubSeq(list, 1, IF n < Len(list) THEN n ELSE Len(list))

\* C29 (as stated): a completed track_user_task or send_notification call
\* leaves its list as the pushed entry followed by the entries that were
\* there, cut after the 100th (so the list holds the most recently pushed
\* entries, newest first, the oldest evicted), each list holds at most 100
\* entries, and get_user_tasks(u, limit) answers the first min(limit, length)
\* entries of user_tasks:{u}.
C29_AsStated ==
    [][\A u \in Users :
          /\ track_user_task(u, NextTask, "question_answering", NoUpload) =>
                redis'.user_tasks[u] = FirstOf(<<NextTask>> \o redis.user_tasks[u], 100)
          /\ \A now \in {LastSent, LastSent + 1} :
                send_notification(u, now) =>
                   redis'.user_notifications[u] =
                       FirstOf(<<<<"notification", u, now>>>>
                                  \o redis.user_notifications[u], 100)
          /\ Len(redis'.user_tasks[u]) <= 100
          /\ Len(redis'.user_notifications[u]) <= 100
          /\ \A limit \in Limits :
                get_user_tasks(u, limit)' = FirstOf(redis'.user_tasks[u], limit)]_vars

(***************************************************************************)
(* The query log: questions on every path, deletion of documents by route, *)
(* job and bulk job, the scheduled maintenance jobs, reports and exports,  *)
(* over two days, starting with one document and an old result key.  A     *)
(* request is sent when the one before it has ended; the maintenance jobs  *)
(* and midnight fall anywhere.                                             *)
(***************************************************************************)
InitLog ==
    /\ InitService("chromadb", {UploadedDocument})
    /\ redis = LegacyRedis
    /\ revoked = {}
    /\ monitor = NoMonitorCall
    /\ split = NoSplit
    /\ llm = NoLLMCall /\ pool = 1

LogDelete ==
    \/ Idle /\ DeleteRequest
    \/ \E p \in Procs, u \in Users : Idle /\ bulk_delete_user_documents_delay(p, u)
    \/ \E p \in Procs, autoflush \in BOOLEAN : delete_document_sync_commit(p, autoflush)
    \/ DeleteStep

LogMaintenance ==
    \/ update_user_stats
    \/ cleanup_expired_tasks
    \/ \E u \in StoreUsers, days \in ReportDays : Room /\ generate_user_report(u, days)
    \/ \E u \in StoreUsers : Room /\ export_user_data(u, MaxSecond)

NextLog ==
    \/ Idle /\ Ask
    \/ QAStep
    \/ StreamStep
    \/ \E p \in Procs : autoretry(p)
    \/ Tick(qa_countdown)
    \/ NewDay
    \/ LogDelete
    \/ LogMaintenance

SpecLog == InitLog /\ [][NextLog]_vars

\* C31: QueryLog is append-only: in every step of the system (a question on
\* any path, a document deletion, a bulk deletion, a maintenance job, an
\* export, a report) the records that were in the query log are still there,
\* unchanged and in the same place; a step only adds records after them.
C31_AppendOnly ==
    [][/\ Len(query_logs') >= Len(query_logs)
       /\ SubSeq(query_logs', 1, Len(query_logs)) = query_logs]_vars

\* A question of user 1 was logged, and after that the user's documents were
\* deleted and the statistics job ran: the log still holds the record.
C31_Witness ==
    /\ \E i \in DOMAIN query_logs : query_logs[i].user_id = 1
    /\ UserDocuments(1) = {}
    /\ users[1].document_count = 0
    /\ \E p \in Procs : procs[p].kind \in {"delete", "bulk", "delete_route"}

(***************************************************************************)
(* QAService.answer_question called once, on every strategy and backend    *)
(* behaviour, for a user with more than five indexed chunks and for a user *)
(* with none.                                                              *)
(***************************************************************************)
AnswerDocuments ==
    {[id |-> 1, filename |-> "b.txt", content_hash |-> calculate_hash("B"),
      chunk_count |-> ChunkCount["B"], user_id |-> 1],
     [id |-> 2, filename |-> "big.txt", content_hash |-> calculate_hash("Big"),
      chunk_count |-> ChunkCount["Big"], user_id |-> 1]}
Elapsed == {0, 1}

InitAnswer ==
    /\ InitWith("chromadb", AnswerDocuments)
    /\ Cardinality(UserFilter(index, 1)) > top_k_default

NextAnswer ==
    \E u \in Users, strategy \in Strategies, question \in Questions,
       outcome \in Outcomes, text \in ResponseTexts, elapsed \in Elapsed :
        /\ llm = NoLLMCall
        /\ outcome # "ok" => text = <<>>
        /\ answer_question(u, strategy, question, outcome, text, elapsed)

SpecAnswer == InitAnswer /\ [][NextAnswer]_vars

\* C32 (as stated): a call of answer_question(question, user_id) retrieves
\* at most 5 chunks, all of that user, appends exactly one QueryLog of that
\* user with chunks_used the number of chunks retrieved and response_time
\* at least 0, and returns a non-empty answer.
C32_AsStated ==
    [][LET u == last_search'.user_id
           log == query_logs'[Len(query_logs')]
       IN  /\ Cardinality(last_search'.hits) <= 5
           /\ \A h \in last_search'.hits : h.user_id = u
           /\ Len(query_logs') = Len(query_logs) + 1
           /\ SubSeq(query_logs', 1, Len(query_logs)) = query_logs
           /\ log.user_id = u
           /\ log.chunks_used = Cardinality(last_search'.hits)
           /\ log.response_time >= 0
           /\ llm'.answer # <<>>
           /\ log.answer = llm'.answer]_vars

\* C33: the scheduled maintenance jobs are idempotent: in the state
\* update_user_stats leaves, a second run would write the user rows that are
\* there (and it writes nothing else), and in the state cleanup_expired_tasks
\* leaves, a second run would leave the side store as it is.
C33_Idempotent ==
    [][/\ update_user_stats =>
             /\ UpdatedUsers(users', documents', today') = users'
             /\ documents' = documents /\ query_logs' = query_logs /\ redis' = redis
       /\ cleanup_expired_tasks =>
             /\ Cleaned(redis') = redis'
             /\ users' = users /\ documents' = documents /\ query_logs' = query_logs]_vars

\* Both jobs have run with an effect: the old result key has an expiry of an
\* hour, and a user whose last question was asked on an earlier day has the
\* counter 0 and a document count that is the number of the user's rows.
C33_Witness ==
    /\ TTL(redis, LegacyResult) = 3600
    /\ \E u \in Users :
          /\ users[u].last_query_date # NoDate /\ users[u].last_query_date < today
          /\ users[u].query_count_today = 0
          /\ users[u].document_count = Cardinality(UserDocuments(u))
          /\ UserDocuments(u) = {}
    /\ query_logs # <<>>

(***************************************************************************)
(* Progress of the jobs: jobs of every type submitted for the first user   *)
(* or for a user that does not exist, at any time, also while another is   *)
(* queued or running, with workers that go on taking the steps of the jobs *)
(* they have and a clock that goes on.                                     *)
(***************************************************************************)
LiveSubmit ==
    \/ \E p \in Procs, u \in JobUsers, up \in TrackedUploads :
          process_document_async_delay(p, u, up)
    \/ \E p \in Procs, d \in DocumentIds : delete_document_async_route(p, 1, d)
    \/ \E p \in Procs : bulk_delete_user_documents_delay(p, 1)
    \/ \E p \in Procs, u \in JobUsers : answer_question_async_delay(p, u)

NextLive ==
    \/ LiveSubmit
    \/ IngestStep
    \/ QAStep
    \/ DeleteStep
    \/ Tick(qa_countdown)

\* A worker that has a job takes its next step (the external calls return),
\* and a retry that waits for its countdown sees the time pass.
Fairness ==
    /\ WF_vars(IngestStep)
    /\ WF_vars(QAStep)
    /\ WF_vars(DeleteStep)
    /\ WF_vars(Tick(qa_countdown))

SpecLive == InitUploaded /\ [][NextLive]_vars /\ Fairness

Ended(p) == procs[p].pc = "done" /\ meta[p].state \in {"SUCCESS", "FAILURE"}

\* C34: every submitted job eventually reaches Succeeded or Failed, whatever
\* jobs failed or used up their retries before it or next to it.
C34_EveryJobEnds ==
    \A p \in Procs : (procs[p].pc \notin {"free", "done"}) ~> Ended(p)

\* A job has failed after its last retry, and a job submitted later, to the
\* other slot, has succeeded.
C34_Witness ==
    \E p, q \in Procs :
        /\ p # q
        /\ Ended(p) /\ meta[p].state = "FAILURE" /\ procs[p].retries > 0
        /\ Ended(q) /\ meta[q].state = "SUCCESS"

\* C35 (as stated): in a question-answering job the QueryLog and the daily
\* counter are written together and only on success: a step of a job that
\* does not end it with 'success' (a step on the way, 'no_context', the rate
\* limit, a failure, a retry) writes no QueryLog and leaves the user's stored
\* query_count_today and last_query_date as they are, and the step that ends
\* it with 'success' appends exactly one QueryLog of the user and raises the
\* stored counter by exactly one (to 1 when the stored date is not today's),
\* with today's date.
JobStep(p) == procs[p].kind = "qa" /\ ~Reusable(p) /\ procs'[p] # procs[p]
EndsWithSuccess(p) ==
    /\ procs'[p].pc = "done"
    /\ meta'[p].state = "SUCCESS" /\ meta'[p].result.status = "success"
C35_AsStated ==
    [][\A p \in Procs :
          (JobStep(p) /\ procs[p].user \in Users) =>
              LET u == procs[p].user IN
              IF EndsWithSuccess(p)
              THEN /\ Len(query_logs') = Len(query_logs) + 1
                   /\ SubSeq(query_logs', 1, Len(query_logs)) = query_logs
                   /\ query_logs'[Len(query_logs')].user_id = u
                   /\ users'[u].query_count_today =
                         IF SameDay(users[u], today)
                         THEN users[u].query_count_today + 1 ELSE 1
                   /\ users'[u].last_query_date = today
              ELSE /\ query_logs' = query_logs
                   /\ users'[u] = users[u]]_vars

\* C36 (as stated): once an ingestion job and a deletion (job or route) of
\* the same document have both finished, and nothing else is running, the
\* vector index holds no chunk of a document that has no Document record.
Orphans ==
    {e \in index : ~\E d \in documents : d.id = e.document_id /\ d.user_id = e.user_id}
EntriesOf(id) == {e \in index : e.document_id = id}
Quiet(p) == \A q \in Procs \ {p} : procs[q].pc \in {"free", "done"}

\* C37: when an ingestion job has ended with result 'success' or 'duplicate'
\* and no other job is running, the index holds chunk_count entries for the
\* document the result names, also after a retry that follows a failed
\* vector-index write.
C37_AsStated ==
    \A p \in Procs :
        (/\ procs[p].kind = "ingest" /\ procs[p].pc = "done"
         /\ meta[p].state = "SUCCESS"
         /\ meta[p].result.status \in {"success", "duplicate"}
         /\ Quiet(p))
        => \A d \in documents :
               d.id = meta[p].result.document_id
               => Cardinality(EntriesOf(d.id)) = d.chunk_count


\* The QueryLog rows written for user u on day d.
LoggedOn(u, d) ==
    {i \in 1..Len(query_logs) :
        query_logs[i].user_id = u /\ query_logs[i].created_at = d}

\* C38: with rate limiting enabled, the QueryLog rows written for one user on
\* one calendar day never number more than max_queries_per_hour, on every
\* question path and under every interleaving of the user's questions.
C38_AsStated ==
    rate_limit_enabled =>
        \A u \in Users, d \in 0..MaxDay :
            Cardinality(LoggedOn(u, d)) <= max_queries_per_hour


\* C39: every send_notification call stores its notification under a key of
\* its own, so the entries of a user's notification list are pairwise
\* distinct keys, also for two notifications sent in the same second.
C39_AsStated ==
    \A u \in Users :
        LET list == redis.user_notifications[u] IN
        \A i, j \in DOMAIN list : i # j => list[i] # list[j]


(***************************************************************************)
(* app/tasks/qa_tasks.py: batch_answer_questions, and the pool of the      *)
(* worker that serves the question_answering queue.  A batch job keeps its *)
(* total_questions in `count`, its results in `events` and the slot of the *)
(* sub-job it waits for in `doc`.                                          *)
(***************************************************************************)
MaxWorkers == 2
MaxQuestions == 2
Pools == 1..MaxWorkers

\* A pool process is held by a job of the queue from the moment the job
\* starts until it returns, raises or is queued again for a retry.
Busy(p) ==
    /\ procs[p].kind \in {"qa", "batch"}
    /\ procs[p].pc \notin {"free", "queued", "done"}
WorkerFree == Cardinality({p \in Procs : Busy(p)}) < pool

\* batch_answer_questions.delay(user_id, questions), n questions.
batch_answer_questions_delay(p, u, n) ==
    /\ NextFree(p)
    /\ Take(p, [Question("batch", u, "queued") EXCEPT !.count = n])
    /\ UNCHANGED <<users, documents, query_logs, index, backend, side, last_search, today>>

\* Lines 160-164: a pool process takes the job.
batch_answer_questions_begin(p) ==
    /\ procs[p].kind = "batch" /\ procs[p].pc = "queued"
    /\ WorkerFree
    /\ procs' = [procs EXCEPT ![p].pc = "loop", ![p].runs = @ + 1]
    /\ UNCHANGED <<users, documents, query_logs, index, backend, side, meta, reports,
                   polled, last_search, today, submitted>>

\* What the `except Exception` of the batch job returns.
BatchError(err) == Returned([NoResult EXCEPT !.status = "error", !.error = err])

\* Lines 166-180: the progress report in whole percent, apply_async of the
\* sub-job for the next question (it goes to the question_answering queue
\* like every task of qa_tasks) and the call of get() on its result.
\* `blocks`: get() waits for the sub-job; otherwise Celery refuses to wait
\* inside a task and get() raises RuntimeError, which the handler at lines
\* 192-193 turns into the result {"status": "error"}.
batch_answer_questions_apply(p, q, blocks) ==
    LET pr == procs[p]
        progress == (Len(pr.events) * 100) \div pr.count
    IN
    /\ pr.kind = "batch" /\ pr.pc = "loop" /\ Len(pr.events) < pr.count
    /\ q # p /\ Reusable(q)
    /\ procs' = [procs EXCEPT
                   ![q] = Question("qa", pr.user, "queued"),
                   ![p] = IF blocks THEN [pr EXCEPT !.pc = "waiting", !.doc = q]
                          ELSE [pr EXCEPT !.pc = "done", !.doc = q,
                                          !.error = "RuntimeError"]]
    /\ meta' = [meta EXCEPT
                   ![q] = Pending,
                   ![p] = IF blocks THEN UpdateState("PROCESSING", progress)
                          ELSE BatchError("RuntimeError")]
    /\ reports' = [reports EXCEPT ![q] = <<>>,
                                  ![p] = Append(@, <<"PROCESSING", progress>>)]
    /\ polled' = [polled EXCEPT ![q] = ""]
    /\ UNCHANGED <<users, documents, query_logs, index, backend, side, last_search,
                   today, submitted>>

\* Lines 180-185: get() returns once the sub-job has ended: its result is
\* appended when it returned, and its exception is raised in the batch job
\* when it failed.
batch_answer_questions_get(p) ==
    LET pr == procs[p]
        q == pr.doc
    IN
    /\ pr.kind = "batch" /\ pr.pc = "waiting"
    /\ procs[q].kind = "qa" /\ procs[q].pc = "done"
    /\ IF meta[q].state = "SUCCESS"
       THEN /\ procs' = [procs EXCEPT ![p].pc = "loop",
                                      ![p].events = Append(@, meta[q].result)]
            /\ meta' = meta
       ELSE /\ procs' = [procs EXCEPT ![p].pc = "done",
                                      ![p].error = meta[q].result.error]
            /\ meta' = [meta EXCEPT ![p] = BatchError(meta[q].result.error)]
    /\ UNCHANGED <<users, documents, query_logs, index, backend, side, reports, polled,
                   last_search, today, submitted>>

\* Lines 187-192: every question has its result.
batch_answer_questions_return(p) ==
    LET pr == procs[p] IN
    /\ pr.kind = "batch" /\ pr.pc = "loop" /\ Len(pr.events) = pr.count
    /\ procs' = [procs EXCEPT ![p].pc = "done"]
    /\ meta' = [meta EXCEPT ![p] = Returned([NoResult EXCEPT !.status = "success"])]
    /\ UNCHANGED <<users, documents, query_logs, index, backend, side, reports, polled,
                   last_search, today, submitted>>

\* Line 149, time_limit: the pool process of a batch job that has run for
\* twice qa_task_timeout is killed; the job ends in FAILURE and the process
\* is replaced.
batch_time_limit(p) ==
    /\ procs[p].kind = "batch" /\ procs[p].pc = "waiting"
    /\ procs' = [procs EXCEPT ![p].pc = "done", ![p].error = "TimeLimitExceeded"]
    /\ meta' = [meta EXCEPT ![p] =
                  [state |-> "FAILURE", progress |-> -1,
                   result |-> Failure("TimeLimitExceeded")]]
    /\ UNCHANGED <<users, documents, query_logs, index, backend, side, reports, polled,
                   last_search, today, submitted>>

(***************************************************************************)
(* The batch specification: batch jobs of one to MaxQuestions questions,   *)
(* one at a time, on a worker with one to MaxWorkers pool processes.  A    *)
(* queued job starts when a pool process is free.                          *)
(***************************************************************************)
InitBatch ==
    /\ InitService("chromadb", {UploadedDocument})
    /\ redis = EmptyRedis
    /\ revoked = {}
    /\ monitor = NoMonitorCall
    /\ split = NoSplit
    /\ llm = NoLLMCall
    /\ pool \in Pools

BatchStep ==
    \/ \E p \in Procs : batch_answer_questions_begin(p)
    \/ \E p, q \in Procs, blocks \in BOOLEAN : batch_answer_questions_apply(p, q, blocks)
    \/ \E p \in Procs : batch_answer_questions_get(p)
    \/ \E p \in Procs : batch_answer_questions_return(p)

SubJobStep ==
    \/ \E p \in Procs : WorkerFree /\ answer_question_async_begin(p)
    \/ \E p \in Procs, fails \in BOOLEAN : answer_question_async_search(p, fails)
    \/ \E p \in Procs : answer_question_async_finish(p)
    \/ \E p \in Procs : autoretry(p)
    \/ Tick(qa_countdown)

NextBatch ==
    \/ \E p \in Procs, u \in Users, n \in 1..MaxQuestions :
          Idle /\ batch_answer_questions_delay(p, u, n)
    \/ BatchStep
    \/ SubJobStep
    \/ \E p \in Procs : batch_time_limit(p)
    \/ NewDay

FairnessBatch ==
    /\ WF_vars(BatchStep)
    /\ WF_vars(SubJobStep)
    /\ WF_vars(\E p \in Procs : batch_time_limit(p))

SpecBatch == InitBatch /\ [][NextBatch]_vars /\ FairnessBatch

\* A batch job returned one result per question.
Answered(p) ==
    /\ procs[p].kind = "batch" /\ procs[p].pc = "done"
    /\ meta[p].state = "SUCCESS" /\ meta[p].result.status = "success"
    /\ Len(procs[p].events) = procs[p].count

\* C40: while a batch job waits for its sub-job, a pool process of the
\* question_answering worker is free to run that sub-job, and under fair
\* scheduling every batch job ends having returned one result per question.
C40_AsStated ==
    /\ [](\A p \in Procs :
             (procs[p].kind = "batch" /\ procs[p].pc = "waiting"
              /\ procs[procs[p].doc].pc = "queued")
             => WorkerFree)
    /\ \A p \in Procs :
          (procs[p].kind = "batch" /\ procs[p].pc = "queued") ~> Answered(p)

============================================================================
